---- MODULE Spec2Model ----
(***************************************************************************)
(* Model of ynab-gocardless-sync: the sync pass (ynab_sync/sync.py), the   *)
(* persisted configuration (ynab_sync/config.py) and the two upstream      *)
(* clients (ynab_sync/api.py).                                             *)
(*                                                                         *)
(* Python dicts are TLA+ functions with a string domain; an absent key is  *)
(* a string outside DOMAIN.  A decimal amount string is a record           *)
(* [neg, whole, frac] with frac in thousandths ("100.50" is                *)
(* [neg |-> FALSE, whole |-> 100, frac |-> 500]).  An ISO date/date-time   *)
(* string is [day, time] with time = NoTime for a date-only string.        *)
(***************************************************************************)
EXTENDS Integers, Sequences, FiniteSets, TLC

VARIABLES
    config_file,          \* persisted configuration document (config.yaml)
    now,                  \* wall clock (UTC), [day, time]
    bank_data,            \* aggregation API: bank account -> transactions response
    requisition_accounts, \* aggregation API: accounts of the requisition
    budget,               \* budgeting service: ledger of recorded transactions
    pc,                   \* position of the sync pass
    config,               \* sync_transactions: config loaded at pass start
    requisition,          \* sync_transactions: accounts of the requisition read
    last_sync,            \* sync_transactions: watermark read at pass start
    idx,                  \* sync_transactions: position in account_mappings
    total_added,          \* sync_transactions: running total
    ynab_transactions,    \* sync_transactions: batch being submitted
    result,               \* value returned by sync_transactions
    error,                \* the call that raised, when the pass raised
    fetch_log,            \* requests issued to get_account_transactions in this pass
    submit_log,           \* requests issued to create_transactions in this pass
    response_log,         \* responses received from create_transactions in this pass
    save_log,             \* last_sync values persisted during this pass
    watermark_before,     \* persisted last_sync when the pass started
    passes,               \* number of passes started
    gc_client,            \* the GoCardlessClient instance: access_token and headers
    request_log,          \* HTTP requests issued by the running pass or command
    answered,             \* number of those requests that were answered
    error_log,            \* records logged at error severity by the running pass or command
    cli_out,              \* what the last CLI command printed and how it exited
    file_before,          \* persisted configuration when the running command started
    command,              \* the CLI command running, "none" when there is none
    saved,                \* the documents the running command passed to save_config
    api_call,             \* a client method and the HTTP response it receives
    api_out,              \* outcome of that client method
    p_in,                 \* prepare_ynab_transactions: argument bank_transactions
    p_acct,               \* prepare_ynab_transactions: argument account_id
    p_out,                \* prepare_ynab_transactions: outcome of the call
    other                 \* a second CLI process: its command and loaded config

vars == <<config_file, now, bank_data, requisition_accounts, budget, pc, config,
          requisition, last_sync, idx, total_added, ynab_transactions, result, error,
          fetch_log, submit_log, response_log, save_log, watermark_before,
          passes, gc_client, request_log, answered, error_log, cli_out, file_before,
          command, saved, api_call, api_out, p_in, p_acct, p_out, other>>

syncVars == <<config_file, now, bank_data, requisition_accounts, budget, pc, config,
              requisition, last_sync, idx, total_added, ynab_transactions, result, error,
              fetch_log, submit_log, response_log, save_log, watermark_before,
              passes, gc_client, request_log, answered, error_log>>

clientVars == <<gc_client, request_log, answered, error_log>>

cliVars == <<cli_out, file_before, command, saved>>

apiVars == <<api_call, api_out>>

prepVars == <<p_in, p_acct, p_out>>

overlapVars == <<other>>

\* no second process is running
NoOther == [command |-> "none"]

----------------------------------------------------------------------------
(* Bounds *)

MaxPasses == 2      \* sync passes per behaviour
MaxDay == 2         \* last day the clock reaches
MaxTime == 1        \* last time of day the clock reaches
MaxMappings == 2    \* entries of account_mappings

----------------------------------------------------------------------------
(* Values *)

NoTime == 0 - 1     \* the time part of a date-only ISO string

EmptyDict == [k \in {} |-> 0]

BankAccounts == {"bank_account_1", "bank_account_2"}

YnabAccountIds == {"ynab_account_1", "unmapped"}

\* accounts that exist in the budget; a submission to another account is rejected
BudgetAccounts == {"ynab_account_1"}

Dec(n, w, f) == [neg |-> n, whole |-> w, frac |-> f]

Amounts ==
    { Dec(FALSE, 100, 500), Dec(TRUE, 50, 250), Dec(FALSE, 0, 0),
      Dec(TRUE, 0, 1), Dec(FALSE, 1, 1), Dec(TRUE, 1, 5) }

Txn1 ==
    [ transactionId |-> "t1", bookingDate |-> "2023-01-01",
      transactionAmount |-> [amount |-> Dec(FALSE, 100, 500), currency |-> "GBP"],
      debtorName |-> "John Doe",
      remittanceInformationUnstructured |-> "Payment for services" ]

Txn2 ==
    [ transactionId |-> "t2", bookingDate |-> "2023-01-02",
      transactionAmount |-> [amount |-> Dec(TRUE, 50, 250), currency |-> "GBP"],
      remittanceInformationUnstructured |-> "Grocery Store" ]

TxnPending ==
    [ transactionId |-> "t3", bookingDate |-> "2023-01-03",
      transactionAmount |-> [amount |-> Dec(FALSE, 1, 1), currency |-> "GBP"] ]

\* a booked item without transactionId
TxnNoId ==
    [ bookingDate |-> "2023-01-01",
      transactionAmount |-> [amount |-> Dec(FALSE, 100, 500), currency |-> "GBP"],
      debtorName |-> "John Doe" ]

\* responses of GET /accounts/{id}/transactions/
Responses ==
    { EmptyDict,
      [detail |-> "no data"],
      [transactions |-> [booked |-> <<>>, pending |-> <<TxnPending>>]],
      [transactions |-> [booked |-> <<Txn1>>, pending |-> <<>>]],
      [transactions |-> [booked |-> <<Txn1, Txn2>>, pending |-> <<TxnPending>>]],
      [transactions |-> [booked |-> <<TxnNoId>>, pending |-> <<>>]] }

\* ordered account_mappings with distinct bank accounts
Mappings ==
    { m \in UNION { [1..n -> BankAccounts \X YnabAccountIds] : n \in 0..MaxMappings } :
        \A i, j \in DOMAIN m : i # j => m[i][1] # m[j][1] }

----------------------------------------------------------------------------
(* config.py *)

\* datetime.now(UTC).date().isoformat()
DateIso(t) == [day |-> t.day, time |-> NoTime]

\* Python's None
None == "<None>"

\* the state of the disk when CONFIG_FILE does not exist
NoFile == [missing |-> TRUE]

\* load_config: the document on disk, or the default when there is none
load_config(file, t) ==
    IF "missing" \in DOMAIN file
    THEN [ last_sync |-> [day |-> t.day - 7, time |-> NoTime],
           ynab |-> [budget_id |-> None, account_id |-> None] ]
    ELSE file

\* datetime.fromisoformat accepts the string
IsIsoFormat(text) == "day" \in DOMAIN text

\* update_last_sync saving the default document instead of the loaded one
UpdateLastSyncFromDefault(file, t) ==
    [ last_sync |-> DateIso(t),
      ynab |-> [budget_id |-> None, account_id |-> None] ]

\* update_last_sync: load_config, set last_sync to the UTC date, save_config
update_last_sync(file, t) ==
    LET cfg == load_config(file, t)
    IN  [k \in DOMAIN cfg \cup {"last_sync"} |->
            IF k = "last_sync" THEN DateIso(t) ELSE cfg[k]]

----------------------------------------------------------------------------
(* sync.py: prepare_ynab_transactions *)

\* Booked falling back to the pending list when there is no booked list
BookedOrPending(bank_transactions) ==
    IF "transactions" \in DOMAIN bank_transactions
    THEN IF "booked" \in DOMAIN bank_transactions.transactions
         THEN bank_transactions.transactions.booked
         ELSE IF "pending" \in DOMAIN bank_transactions.transactions
              THEN bank_transactions.transactions.pending
              ELSE <<>>
    ELSE <<>>

\* Booked followed by the pending partition
BookedAndPending(bank_transactions) ==
    IF "transactions" \in DOMAIN bank_transactions
    THEN (IF "booked" \in DOMAIN bank_transactions.transactions
          THEN bank_transactions.transactions.booked ELSE <<>>)
         \o (IF "pending" \in DOMAIN bank_transactions.transactions
             THEN bank_transactions.transactions.pending ELSE <<>>)
    ELSE <<>>

\* bank_transactions.get("transactions", {}).get("booked", [])
Booked(bank_transactions) ==
    IF "transactions" \in DOMAIN bank_transactions
    THEN IF "booked" \in DOMAIN bank_transactions.transactions
         THEN bank_transactions.transactions.booked
         ELSE <<>>
    ELSE <<>>

\* float(s) in thousandths, signed
ParseMilli(s) == IF s.neg THEN 0 - (s.whole * 1000 + s.frac) ELSE s.whole * 1000 + s.frac

\* the non-negative thousandths m of this model for which the double
\* float("w.fff") * 1000 lies below m, so that int() gives m - 1
FloatBelow == {1001, 1005}

\* int(amount * 1000) for a non-negative amount of m thousandths
IntTimes1000(m) == IF m \in FloatBelow THEN m - 1 ELSE m

\* amount = float(...); if amount < 0: amount = abs(amount); int(amount * 1000)
Milliunits(s) ==
    LET amount == ParseMilli(s)
    IN  IF amount < 0 THEN IntTimes1000(0 - amount) ELSE IntTimes1000(amount)

\* PayeeName with the two lookups swapped
PayeeNameRemittanceFirst(txn) ==
    IF "remittanceInformationUnstructured" \in DOMAIN txn
    THEN txn.remittanceInformationUnstructured
    ELSE IF "debtorName" \in DOMAIN txn THEN txn.debtorName
         ELSE "Unknown"

\* txn.get("debtorName", txn.get("remittanceInformationUnstructured", "Unknown"))
PayeeName(txn) ==
    IF "debtorName" \in DOMAIN txn THEN txn.debtorName
    ELSE IF "remittanceInformationUnstructured" \in DOMAIN txn
         THEN txn.remittanceInformationUnstructured
         ELSE "Unknown"

\* ImportId left out of the submitted transaction
ImportIdNone(txn) == <<>>

\* f"gc:{txn['transactionId']}"
ImportId(txn) == <<"gc:", txn.transactionId>>

\* subscripting a missing key raises KeyError
TxnRaises(txn) ==
    \/ "transactionAmount" \notin DOMAIN txn
    \/ "bookingDate" \notin DOMAIN txn
    \/ "transactionId" \notin DOMAIN txn

ConvertTxn(txn, account_id) ==
    [ account_id |-> account_id,
      date |-> txn.bookingDate,
      amount |-> Milliunits(txn.transactionAmount.amount),
      payee_name |-> PayeeName(txn),
      import_id |-> ImportId(txn) ]

\* prepare_ynab_transactions inserting each entry at the front of the list
PrepareInsertFront(bank_transactions, account_id) ==
    LET booked == Booked(bank_transactions)
        raised == \E i \in DOMAIN booked : TxnRaises(booked[i])
    IN  [ raised |-> raised,
          value |-> IF raised THEN <<>>
                    ELSE [i \in DOMAIN booked |->
                             ConvertTxn(booked[Len(booked) + 1 - i], account_id)] ]

\* ynab_transactions.append({...}) for each booked item, in order
prepare_ynab_transactions(bank_transactions, account_id) ==
    LET booked == Booked(bank_transactions)
        raised == \E i \in DOMAIN booked : TxnRaises(booked[i])
    IN  [ raised |-> raised,
          value |-> IF raised THEN <<>>
                    ELSE [i \in DOMAIN booked |-> ConvertTxn(booked[i], account_id)] ]

----------------------------------------------------------------------------
(* api.py: the requests the clients issue *)

\* GoCardlessClient.get_account_transactions: GET with headers only
get_account_transactions_request(account_id) ==
    [account_id |-> account_id, params |-> EmptyDict]

\* YNABClient.create_transactions: POST json={"transactions": transactions}
create_transactions_request(budget_id, transactions) ==
    [budget_id |-> budget_id, transactions |-> transactions]

\* absent access token (self.access_token = None)
NoToken == <<>>

\* the token the aggregation API issues to the n-th client instance
AccessToken(n) == <<"access", n>>

\* GoCardlessClient.__init__
GoCardlessClient ==
    [access_token |-> NoToken, headers |-> ("Content-Type" :> "application/json")]

\* YNABClient.__init__: the headers of every request
YnabHeaders(api_key) ==
    ("Authorization" :> <<"Bearer", api_key>>) @@ ("Content-Type" :> "application/json")

\* if not self.access_token
NeedsToken(client) == client.access_token = NoToken

\* get_access_token after a 2xx answer: keep the token, set the header
get_access_token(client, token) ==
    [ access_token |-> token,
      headers |-> ("Authorization" :> <<"Bearer", token>>) @@ client.headers ]

\* a request of the GoCardlessClient: headers=self.headers
GcRequest(client, method, endpoint) ==
    [api |-> "gocardless", method |-> method, endpoint |-> endpoint,
     headers |-> client.headers]

TokenRequest(client) == GcRequest(client, "POST", <<"token", "new">>)

\* the request of YNABClient.create_transactions
YnabRequest(api_key, budget_id) ==
    [api |-> "ynab", method |-> "POST", endpoint |-> <<"budgets", budget_id, "transactions">>,
     headers |-> YnabHeaders(api_key)]

\* response.raise_for_status() raises unless the status is 2xx
IsSuccess(status_code) == status_code \in 200..299

\* log_and_raise_for_status re-raising without the logger.error call
RaiseForStatusOnly(response) ==
    [raised |-> ~IsSuccess(response.status_code), log |-> <<>>]

\* log_and_raise_for_status: whether it raises, and what it logs
log_and_raise_for_status(response) ==
    IF IsSuccess(response.status_code)
    THEN [raised |-> FALSE, log |-> <<>>]
    ELSE [ raised |-> TRUE,
           log |-> << [ level |-> "ERROR", status_code |-> response.status_code,
                        url |-> response.request.endpoint,
                        method |-> response.request.method,
                        text |-> response.text ] >> ]

\* a non-2xx answer to a request
ErrorResponse(request) == [status_code |-> 500, request |-> request, text |-> "error"]

----------------------------------------------------------------------------
(* The budgeting service: duplicates are suppressed by import identifier   *)
(* within an account; a transaction without import identifier is never a   *)
(* duplicate.  Each ledger entry remembers the bank transaction it came    *)
(* from (src).                                                             *)

IsDuplicate(ledger, txn) ==
    /\ txn.import_id # <<>>
    /\ \E k \in DOMAIN ledger :
          /\ ledger[k].txn.account_id = txn.account_id
          /\ ledger[k].txn.import_id = txn.import_id

RECURSIVE Import(_, _, _, _)
Import(ledger, batch, srcs, i) ==
    IF i > Len(batch) THEN ledger
    ELSE IF IsDuplicate(ledger, batch[i])
         THEN Import(ledger, batch, srcs, i + 1)
         ELSE Import(Append(ledger, [txn |-> batch[i], src |-> srcs[i]]), batch, srcs, i + 1)

\* the identifiers the service assigned to the entries it created
CreatedIds(before, after) == [k \in 1..(Len(after) - Len(before)) |-> Len(before) + k]

----------------------------------------------------------------------------
(* sync.py: sync_transactions *)

\* config.get("account_mappings", {})
AccountMappings(cfg) ==
    IF "account_mappings" \in DOMAIN cfg THEN cfg.account_mappings ELSE <<>>

\* AddedCount that also counts identifiers nested under "data"
AddedCountNested(response) ==
    IF "transaction_ids" \in DOMAIN response THEN Len(response.transaction_ids)
    ELSE IF "data" \in DOMAIN response THEN Len(response.data.transaction_ids)
         ELSE 0

\* len(result.get("transaction_ids", []))
AddedCount(response) ==
    IF "transaction_ids" \in DOMAIN response THEN Len(response.transaction_ids) ELSE 0

\* NextIdx leaving the loop at the first entry that is not in the requisition
NextIdxBreak(mappings, accounts, i) ==
    IF i <= Len(mappings) /\ mappings[i][1] \in accounts THEN i
    ELSE Len(mappings) + 1

\* the next mapping entry at or after i that the loop does not skip
\* (bank_account_id in requisition["accounts"]); Len + 1 when there is none
NextIdx(mappings, accounts, i) ==
    LET S == {j \in i..Len(mappings) : mappings[j][1] \in accounts}
    IN  IF S = {} THEN Len(mappings) + 1
        ELSE CHOOSE j \in S : \A k \in S : j <= k

\* an operation of the GoCardlessClient begins: the token request first when
\* no token is held, else the request of the operation
CallGc(client, log, await, method, endpoint) ==
    IF NeedsToken(client)
    THEN /\ pc' = "await_token"
         /\ request_log' = Append(log, TokenRequest(client))
    ELSE /\ pc' = await
         /\ request_log' = Append(log, GcRequest(client, method, endpoint))

\* await gocardless_client.get_account_transactions(bank_account_id)
IssueFetch(account_id) ==
    /\ CallGc(gc_client, request_log, "await_fetch", "GET",
              <<"accounts", account_id, "transactions">>)
    /\ fetch_log' = IF NeedsToken(gc_client) THEN fetch_log
                    ELSE Append(fetch_log, get_account_transactions_request(account_id))

\* RunLoop persisting the watermark each time it moves on to another account
RunLoopAdvanceEach(accounts, i, total, file) ==
    LET m == AccountMappings(config)
        j == NextIdx(m, accounts, i)
    IN  /\ total_added' = total
        /\ idx' = j
        /\ config_file' = update_last_sync(file, now)
        /\ save_log' = Append(save_log, config_file'.last_sync)
        /\ IF j <= Len(m)
           THEN /\ IssueFetch(m[j][1])
                /\ result' = result
           ELSE /\ pc' = "returned"
                /\ UNCHANGED <<fetch_log, request_log>>
                /\ result' = [added |-> total]

\* RunLoop advancing the watermark only when something was added
RunLoopSkipIfZero(accounts, i, total, file) ==
    LET m == AccountMappings(config)
        j == NextIdx(m, accounts, i)
    IN  /\ total_added' = total
        /\ idx' = j
        /\ IF j <= Len(m)
           THEN /\ IssueFetch(m[j][1])
                /\ config_file' = file
                /\ save_log' = save_log
                /\ result' = result
           ELSE /\ pc' = "returned"
                /\ UNCHANGED <<fetch_log, request_log>>
                /\ config_file' = IF total > 0 THEN update_last_sync(file, now) ELSE file
                /\ save_log' = IF total > 0 THEN Append(save_log, config_file'.last_sync)
                               ELSE save_log
                /\ result' = [added |-> total]

\* RunLoop issuing the fetches of the next two accounts without awaiting
\* the first
RunLoopGather(accounts, i, total, file) ==
    LET m == AccountMappings(config)
        j == NextIdx(m, accounts, i)
        j2 == NextIdx(m, accounts, j + 1)
        both == IF j2 <= Len(m) THEN <<j, j2>> ELSE <<j>>
    IN  /\ total_added' = total
        /\ idx' = j
        /\ IF j <= Len(m)
           THEN /\ pc' = "await_fetch"
                /\ request_log' = request_log \o
                      [k \in DOMAIN both |->
                          GcRequest(gc_client, "GET",
                                    <<"accounts", m[both[k]][1], "transactions">>)]
                /\ fetch_log' = fetch_log \o
                      [k \in DOMAIN both |->
                          get_account_transactions_request(m[both[k]][1])]
                /\ config_file' = file
                /\ save_log' = save_log
                /\ result' = result
           ELSE /\ pc' = "returned"
                /\ UNCHANGED <<fetch_log, request_log>>
                /\ config_file' = update_last_sync(file, now)
                /\ save_log' = Append(save_log, config_file'.last_sync)
                /\ result' = [added |-> total]

\* the for loop from entry i on, up to the next await or the return
RunLoop(accounts, i, total, file) ==
    LET m == AccountMappings(config)
        j == NextIdx(m, accounts, i)
    IN  /\ total_added' = total
        /\ idx' = j
        /\ IF j <= Len(m)
           THEN /\ IssueFetch(m[j][1])
                /\ config_file' = file
                /\ save_log' = save_log
                /\ result' = result
           ELSE /\ pc' = "returned"
                /\ UNCHANGED <<fetch_log, request_log>>
                /\ config_file' = update_last_sync(file, now)
                /\ save_log' = Append(save_log, config_file'.last_sync)
                /\ result' = [added |-> total]

\* return {"added": 0} before the loop
ReturnZero ==
    /\ pc' = "returned"
    /\ result' = [added |-> 0]
    /\ UNCHANGED <<idx, total_added, fetch_log, save_log, request_log>>

\* an exception leaves sync_transactions
Raise(call) ==
    /\ pc' = "raised"
    /\ error' = call

\* the request awaited is answered non-2xx: log_and_raise_for_status logs
\* and raises, and nothing catches the exception
UpstreamError(call) ==
    LET check == log_and_raise_for_status(ErrorResponse(request_log[Len(request_log)]))
    IN  /\ check.raised
        /\ Raise(call)
        /\ error_log' = error_log \o check.log
        /\ answered' = answered + 1

\* the persisted last_sync
PersistedWatermark(file) ==
    IF "last_sync" \in DOMAIN file THEN file.last_sync ELSE [absent |-> TRUE]

\* the exception sync_transactions raises before its first request, if any,
\* and whether the GoCardlessClient was constructed before it
StartError(cfg) ==
    IF "ynab" \notin DOMAIN cfg \/ "api_key" \notin DOMAIN cfg.ynab
    THEN [kind |-> "KeyError", client |-> FALSE]
    ELSE IF \/ "gocardless" \notin DOMAIN cfg
            \/ "secret_id" \notin DOMAIN cfg.gocardless
            \/ "secret_key" \notin DOMAIN cfg.gocardless
    THEN [kind |-> "KeyError", client |-> FALSE]
    ELSE IF "last_sync" \notin DOMAIN cfg
    THEN [kind |-> "KeyError", client |-> TRUE]
    ELSE IF ~IsIsoFormat(cfg.last_sync)
    THEN [kind |-> "ValueError", client |-> TRUE]
    ELSE IF /\ "requisition_id" \notin DOMAIN cfg.gocardless
            /\ \/ "redirect_url" \notin DOMAIN cfg.gocardless
               \/ "institution_id" \notin DOMAIN cfg.gocardless
    THEN [kind |-> "KeyError", client |-> TRUE]
    ELSE [kind |-> "none", client |-> TRUE]

\* the first operation of the pass: create_requisition or get_requisition
FirstAwait(cfg) ==
    IF "requisition_id" \in DOMAIN cfg.gocardless
    THEN "await_get_requisition" ELSE "await_create_requisition"

FirstRequest(cfg, client) ==
    IF "requisition_id" \in DOMAIN cfg.gocardless
    THEN GcRequest(client, "GET", <<"requisitions", cfg.gocardless.requisition_id>>)
    ELSE GcRequest(client, "POST", <<"requisitions">>)

\* load_config(), the two clients, fromisoformat(last_sync), then the first
\* operation of the GoCardlessClient, which has no token yet
StartSync ==
    /\ pc \in {"idle", "returned", "raised"}
    /\ passes < MaxPasses
    /\ passes' = passes + 1
    /\ watermark_before' = PersistedWatermark(config_file)
    /\ LET cfg == load_config(config_file, now)
           err == StartError(cfg)
       IN  /\ config' = cfg
           /\ gc_client' = IF err.client THEN GoCardlessClient ELSE EmptyDict
           /\ IF err.kind = "none"
              THEN /\ last_sync' = cfg.last_sync
                   /\ error' = "none"
                   /\ CallGc(GoCardlessClient, <<>>, FirstAwait(cfg),
                             FirstRequest(cfg, GoCardlessClient).method,
                             FirstRequest(cfg, GoCardlessClient).endpoint)
              ELSE /\ Raise(err.kind)
                   /\ request_log' = <<>>
                   /\ UNCHANGED last_sync
    /\ requisition' = {}
    /\ idx' = 0
    /\ total_added' = 0
    /\ ynab_transactions' = <<>>
    /\ result' = EmptyDict
    /\ fetch_log' = <<>>
    /\ submit_log' = <<>>
    /\ response_log' = <<>>
    /\ save_log' = <<>>
    /\ answered' = 0
    /\ error_log' = <<>>
    /\ UNCHANGED <<config_file, now, bank_data, requisition_accounts, budget, prepVars, overlapVars,
                   apiVars, cliVars>>

\* the token endpoint answered 2xx: the operation that asked for the token
\* goes on with its own request
TokenOk ==
    /\ pc = "await_token"
    /\ answered' = answered + 1
    /\ gc_client' = get_access_token(gc_client, AccessToken(passes))
    /\ IF idx = 0
       THEN /\ pc' = FirstAwait(config)
            /\ request_log' = Append(request_log, FirstRequest(config, gc_client'))
            /\ fetch_log' = fetch_log
       ELSE LET account_id == AccountMappings(config)[idx][1]
            IN  /\ pc' = "await_fetch"
                /\ request_log' = Append(request_log,
                       GcRequest(gc_client', "GET", <<"accounts", account_id, "transactions">>))
                /\ fetch_log' = Append(fetch_log, get_account_transactions_request(account_id))
    /\ UNCHANGED <<config_file, now, bank_data, requisition_accounts, budget, config,
                   requisition, last_sync, idx, total_added, ynab_transactions, result,
                   error, submit_log, response_log, save_log, watermark_before, passes,
                   error_log, prepVars, overlapVars, apiVars, cliVars>>

\* TokenRaises going on with the request of the operation all the same
TokenRaisesProceed ==
    /\ pc = "await_token"
    /\ idx = 0
    /\ answered' = answered + 1
    /\ error_log' = error_log \o
          log_and_raise_for_status(ErrorResponse(request_log[Len(request_log)])).log
    /\ pc' = FirstAwait(config)
    /\ request_log' = Append(request_log, FirstRequest(config, gc_client))
    /\ UNCHANGED <<config_file, now, bank_data, requisition_accounts, budget, config,
                   requisition, last_sync, idx, total_added, ynab_transactions, result,
                   error, fetch_log, submit_log, response_log, save_log,
                   watermark_before, passes, gc_client, prepVars, overlapVars, apiVars, cliVars>>

\* the token endpoint answered non-2xx: get_access_token raises before it
\* stores anything
TokenRaises ==
    /\ pc = "await_token"
    /\ UpstreamError("get_access_token")
    /\ UNCHANGED <<config_file, now, bank_data, requisition_accounts, budget, config,
                   requisition, last_sync, idx, total_added, ynab_transactions, result,
                   fetch_log, submit_log, response_log, save_log, watermark_before,
                   passes, gc_client, request_log, prepVars, overlapVars, apiVars, cliVars>>

\* create_requisition answered: store the id, save_config(config), return
CreateRequisitionOk ==
    /\ pc = "await_create_requisition"
    /\ answered' = answered + 1
    /\ config' = [config EXCEPT !.gocardless =
                     [k \in DOMAIN config.gocardless \cup {"requisition_id"} |->
                         IF k = "requisition_id" THEN "req_new" ELSE config.gocardless[k]]]
    /\ config_file' = config'
    /\ pc' = "returned"
    /\ result' = [added |-> 0]
    /\ UNCHANGED <<now, bank_data, requisition_accounts, budget, requisition, last_sync,
                   idx, total_added, ynab_transactions, error, fetch_log, submit_log,
                   response_log, save_log, watermark_before, passes, gc_client,
                   request_log, error_log, prepVars, overlapVars, apiVars, cliVars>>

CreateRequisitionRaises ==
    /\ pc = "await_create_requisition"
    /\ UpstreamError("create_requisition")
    /\ UNCHANGED <<config_file, now, bank_data, requisition_accounts, budget, config,
                   requisition, last_sync, idx, total_added, ynab_transactions, result,
                   fetch_log, submit_log, response_log, save_log, watermark_before,
                   passes, gc_client, request_log, prepVars, overlapVars, apiVars, cliVars>>

\* GetRequisitionOk without the return on an empty account set
GetRequisitionOkNoAccountsCheck ==
    /\ pc = "await_get_requisition"
    /\ answered' = answered + 1
    /\ requisition' = requisition_accounts
    /\ IF AccountMappings(config) = <<>>
       THEN ReturnZero /\ UNCHANGED config_file
       ELSE RunLoop(requisition_accounts, 1, 0, config_file)
    /\ UNCHANGED <<now, bank_data, requisition_accounts, budget, config, last_sync,
                   ynab_transactions, error, submit_log, response_log,
                   watermark_before, passes, gc_client, error_log, prepVars, overlapVars, apiVars,
                   cliVars>>

\* get_requisition answered: the two early returns, then the loop
GetRequisitionOk ==
    /\ pc = "await_get_requisition"
    /\ answered' = answered + 1
    /\ requisition' = requisition_accounts
    /\ IF requisition' = {} \/ AccountMappings(config) = <<>>
       THEN ReturnZero /\ UNCHANGED config_file
       ELSE RunLoop(requisition_accounts, 1, 0, config_file)
    /\ UNCHANGED <<now, bank_data, requisition_accounts, budget, config, last_sync,
                   ynab_transactions, error, submit_log, response_log,
                   watermark_before, passes, gc_client, error_log, prepVars, overlapVars, apiVars,
                   cliVars>>

GetRequisitionRaises ==
    /\ pc = "await_get_requisition"
    /\ UpstreamError("get_requisition")
    /\ UNCHANGED <<config_file, now, bank_data, requisition_accounts, budget, config,
                   requisition, last_sync, idx, total_added, ynab_transactions, result,
                   fetch_log, submit_log, response_log, save_log, watermark_before,
                   passes, gc_client, request_log, prepVars, overlapVars, apiVars, cliVars>>

\* if not transactions: continue
SkipFetch(transactions) == DOMAIN transactions = {}

\* SkipBatch that never skips
SkipBatchNever(batch) == FALSE

\* if not ynab_transactions: continue
SkipBatch(batch) == batch = <<>>

\* get_account_transactions answered: the two skips, prepare, then submit
FetchOk ==
    /\ pc = "await_fetch"
    /\ answered' = answered + 1
    /\ LET m == AccountMappings(config)
           transactions == bank_data[m[idx][1]]
           prepared == prepare_ynab_transactions(transactions, m[idx][2])
       IN  IF SkipFetch(transactions)
           THEN /\ RunLoop(requisition, idx + 1, total_added, config_file)
                /\ UNCHANGED <<ynab_transactions, error, submit_log>>
           ELSE IF prepared.raised
           THEN /\ Raise("prepare_ynab_transactions")
                /\ UNCHANGED <<config_file, idx, total_added, ynab_transactions, result,
                               fetch_log, submit_log, save_log, request_log>>
           ELSE IF SkipBatch(prepared.value)
           THEN /\ RunLoop(requisition, idx + 1, total_added, config_file)
                /\ ynab_transactions' = prepared.value
                /\ UNCHANGED <<error, submit_log>>
           ELSE /\ ynab_transactions' = prepared.value
                /\ submit_log' = Append(submit_log,
                       [ bank_account_id |-> m[idx][1],
                         request |-> create_transactions_request(
                                         config.ynab.budget_id, prepared.value) ])
                /\ request_log' = Append(request_log,
                       YnabRequest(config.ynab.api_key, config.ynab.budget_id))
                /\ pc' = "await_submit"
                /\ UNCHANGED <<config_file, idx, total_added, result, error, fetch_log,
                               save_log>>
    /\ UNCHANGED <<now, bank_data, requisition_accounts, budget, config, requisition,
                   last_sync, response_log, watermark_before, passes, gc_client,
                   error_log, prepVars, overlapVars, apiVars, cliVars>>

\* FetchRaises catching the error and moving on to the next account
FetchRaisesContinue ==
    /\ pc = "await_fetch"
    /\ answered' = answered + 1
    /\ error_log' = error_log \o
          log_and_raise_for_status(ErrorResponse(request_log[Len(request_log)])).log
    /\ RunLoop(requisition, idx + 1, total_added, config_file)
    /\ UNCHANGED <<now, bank_data, requisition_accounts, budget, config, requisition,
                   last_sync, ynab_transactions, error, submit_log, response_log,
                   watermark_before, passes, gc_client, prepVars, overlapVars, apiVars, cliVars>>

\* FetchRaises retrying the fetch instead of raising
FetchRaisesRetry ==
    /\ pc = "await_fetch"
    /\ answered' = answered + 1
    /\ error_log' = error_log \o
          log_and_raise_for_status(ErrorResponse(request_log[Len(request_log)])).log
    /\ Len(request_log) < 12
    /\ request_log' = Append(request_log, request_log[Len(request_log)])
    /\ fetch_log' = Append(fetch_log, fetch_log[Len(fetch_log)])
    /\ UNCHANGED <<config_file, now, bank_data, requisition_accounts, budget, pc, config,
                   requisition, last_sync, idx, total_added, ynab_transactions, result,
                   error, submit_log, response_log, save_log, watermark_before, passes,
                   gc_client, prepVars, overlapVars, apiVars, cliVars>>

\* get_account_transactions answered non-2xx
FetchRaises ==
    /\ pc = "await_fetch"
    /\ UpstreamError("get_account_transactions")
    /\ UNCHANGED <<config_file, now, bank_data, requisition_accounts, budget, config,
                   requisition, last_sync, idx, total_added, ynab_transactions, result,
                   fetch_log, submit_log, response_log, save_log, watermark_before,
                   passes, gc_client, request_log, prepVars, overlapVars, apiVars, cliVars>>

\* the bank transactions the batch in flight was prepared from
BatchSources ==
    LET bank_account_id == AccountMappings(config)[idx][1]
        booked == Booked(bank_data[bank_account_id])
    IN  [i \in DOMAIN booked |-> <<bank_account_id, booked[i]>>]

\* create_transactions answered 2xx: total_added += len(transaction_ids)
SubmitOk ==
    /\ pc = "await_submit"
    /\ answered' = answered + 1
    /\ \A i \in DOMAIN ynab_transactions : ynab_transactions[i].account_id \in BudgetAccounts
    /\ budget' = Import(budget, ynab_transactions, BatchSources, 1)
    /\ \E response \in { [transaction_ids |-> CreatedIds(budget, budget')],
                         [data |-> [transaction_ids |-> CreatedIds(budget, budget')]] } :
          /\ response_log' = Append(response_log, response)
          /\ RunLoop(requisition, idx + 1, total_added + AddedCount(response), config_file)
    /\ UNCHANGED <<now, bank_data, requisition_accounts, config, requisition, last_sync,
                   ynab_transactions, error, submit_log, watermark_before, passes,
                   gc_client, error_log, prepVars, overlapVars, apiVars, cliVars>>

\* create_transactions raised; the service may or may not have recorded the batch
SubmitRaises ==
    /\ pc = "await_submit"
    /\ UpstreamError("create_transactions")
    /\ \/ budget' = budget
       \/ /\ \A i \in DOMAIN ynab_transactions :
                ynab_transactions[i].account_id \in BudgetAccounts
          /\ budget' = Import(budget, ynab_transactions, BatchSources, 1)
    /\ UNCHANGED <<config_file, now, bank_data, requisition_accounts, config,
                   requisition, last_sync, idx, total_added, ynab_transactions, result,
                   fetch_log, submit_log, response_log, save_log, watermark_before,
                   passes, gc_client, request_log, prepVars, overlapVars, apiVars, cliVars>>

\* time passes
Tick ==
    /\ \/ now.time < MaxTime /\ now' = [now EXCEPT !.time = now.time + 1]
       \/ now.day < MaxDay /\ now' = [day |-> now.day + 1, time |-> 0]
    /\ UNCHANGED <<config_file, bank_data, requisition_accounts, budget, pc, config,
                   requisition, last_sync, idx, total_added, ynab_transactions, result,
                   error, fetch_log, submit_log, response_log, save_log,
                   watermark_before, passes, clientVars, prepVars, overlapVars, apiVars, cliVars>>

Init ==
    /\ \E ls \in {[day |-> 0, time |-> NoTime], [day |-> 0, time |-> 1],
                   [text |-> "yesterday"]},
          g \in { [secret_id |-> "sid", secret_key |-> "skey",
                   redirect_url |-> "https://localhost", institution_id |-> "inst_1"],
                  [secret_id |-> "sid", secret_key |-> "skey", requisition_id |-> "req_1"] },
          m \in Mappings :
          config_file = [ last_sync |-> ls,
                          ynab |-> [api_key |-> "key", budget_id |-> "budget"],
                          gocardless |-> g,
                          account_mappings |-> m ]
    /\ now = [day |-> 1, time |-> 0]
    /\ bank_data \in [BankAccounts -> Responses]
    /\ requisition_accounts \in SUBSET BankAccounts
    /\ budget = <<>>
    /\ pc = "idle"
    /\ config = EmptyDict
    /\ requisition = {}
    /\ last_sync = [day |-> 0, time |-> NoTime]
    /\ idx = 0
    /\ total_added = 0
    /\ ynab_transactions = <<>>
    /\ result = EmptyDict
    /\ error = "none"
    /\ fetch_log = <<>>
    /\ submit_log = <<>>
    /\ response_log = <<>>
    /\ save_log = <<>>
    /\ watermark_before = [day |-> 0, time |-> NoTime]
    /\ passes = 0
    /\ gc_client = EmptyDict
    /\ request_log = <<>>
    /\ answered = 0
    /\ error_log = <<>>
    /\ cli_out = EmptyDict
    /\ file_before = EmptyDict
    /\ command = "none"
    /\ saved = <<>>
    /\ other = NoOther
    /\ api_call = EmptyDict
    /\ api_out = [called |-> FALSE]
    /\ p_in = EmptyDict
    /\ p_acct = ""
    /\ p_out = [called |-> FALSE]

Next ==
    \/ StartSync
    \/ TokenOk
    \/ TokenRaises
    \/ CreateRequisitionOk
    \/ CreateRequisitionRaises
    \/ GetRequisitionOk
    \/ GetRequisitionRaises
    \/ FetchOk
    \/ FetchRaises
    \/ SubmitOk
    \/ SubmitRaises
    \/ Tick

Spec == Init /\ [][Next]_vars

\* a request awaited by the pass is answered, with a 2xx status or not
PassStep ==
    \/ TokenOk
    \/ TokenRaises
    \/ CreateRequisitionOk
    \/ CreateRequisitionRaises
    \/ GetRequisitionOk
    \/ GetRequisitionRaises
    \/ FetchOk
    \/ FetchRaises
    \/ SubmitOk
    \/ SubmitRaises

\* the passes whose termination is examined: the clock stands still, and
\* the accounts answer with no data, with two booked items, or with an item
\* prepare_ynab_transactions cannot convert
InitLive ==
    /\ Init
    /\ bank_data \in
          [BankAccounts ->
              { EmptyDict,
                [transactions |-> [booked |-> <<Txn1, Txn2>>, pending |-> <<TxnPending>>]],
                [transactions |-> [booked |-> <<TxnNoId>>, pending |-> <<>>]] }]
    /\ config_file.last_sync \in {[day |-> 0, time |-> NoTime], [text |-> "yesterday"]}

NextLive ==
    \/ StartSync
    \/ PassStep

\* the sync pass when every request it awaits is eventually answered
SpecLive == InitLive /\ [][NextLive]_vars /\ WF_vars(PassStep)

----------------------------------------------------------------------------
(* prepare_ynab_transactions on its own: the inputs are drawn from bounded *)
(* sets and the function is applied once.                                  *)

MaxBooked == 2      \* booked items of an input batch

RawTxns ==
    LET base == { [ transactionId |-> "t1", bookingDate |-> "2023-01-01",
                    transactionAmount |-> [amount |-> a, currency |-> "GBP"] ] :
                  a \in Amounts }
        withDebtor == { [k \in DOMAIN t \cup {"debtorName"} |->
                            IF k = "debtorName" THEN "John Doe" ELSE t[k]] : t \in base }
        withRemit(S) == { [k \in DOMAIN t \cup {"remittanceInformationUnstructured"} |->
                            IF k = "remittanceInformationUnstructured"
                            THEN "Grocery Store" ELSE t[k]] : t \in S }
    IN  base \cup withDebtor \cup withRemit(base) \cup withRemit(withDebtor)
             \cup {Txn2, TxnNoId}

BookedLists == UNION { [1..n -> RawTxns] : n \in 0..MaxBooked }

PrepareInputs ==
    { EmptyDict,
      [detail |-> "no data"],
      [transactions |-> EmptyDict],
      [transactions |-> [pending |-> <<TxnPending>>]] }
    \cup { [transactions |-> [booked |-> b, pending |-> <<TxnPending>>]] : b \in BookedLists }

Prepare ==
    /\ ~p_out.called
    /\ LET r == prepare_ynab_transactions(p_in, p_acct)
       IN  p_out' = [called |-> TRUE, raised |-> r.raised, value |-> r.value]
    /\ UNCHANGED <<p_in, p_acct, syncVars, apiVars, cliVars, overlapVars>>

InitPrepare ==
    /\ p_in \in PrepareInputs
    /\ p_acct \in YnabAccountIds
    /\ p_out = [called |-> FALSE]
    /\ config_file = [ last_sync |-> [day |-> 0, time |-> NoTime],
                       ynab |-> [api_key |-> "key", budget_id |-> "budget"],
                       gocardless |-> [secret_id |-> "sid", secret_key |-> "skey"],
                       account_mappings |-> <<>> ]
    /\ now = [day |-> 1, time |-> 0]
    /\ bank_data = [b \in BankAccounts |-> EmptyDict]
    /\ requisition_accounts = {}
    /\ budget = <<>>
    /\ pc = "idle"
    /\ config = EmptyDict
    /\ requisition = {}
    /\ last_sync = [day |-> 0, time |-> NoTime]
    /\ idx = 0
    /\ total_added = 0
    /\ ynab_transactions = <<>>
    /\ result = EmptyDict
    /\ error = "none"
    /\ fetch_log = <<>>
    /\ submit_log = <<>>
    /\ response_log = <<>>
    /\ save_log = <<>>
    /\ watermark_before = [day |-> 0, time |-> NoTime]
    /\ passes = 0
    /\ gc_client = EmptyDict
    /\ request_log = <<>>
    /\ answered = 0
    /\ error_log = <<>>
    /\ cli_out = EmptyDict
    /\ file_before = EmptyDict
    /\ command = "none"
    /\ saved = <<>>
    /\ other = NoOther
    /\ api_call = EmptyDict
    /\ api_out = [called |-> FALSE]

NextPrepare == Prepare

SpecPrepare == InitPrepare /\ [][NextPrepare]_vars

----------------------------------------------------------------------------
(* The methods of the two clients on their own: a method is called on one  *)
(* YNABClient and one GoCardlessClient instance, and each request it sends *)
(* is answered with any status.                                            *)

MaxRequests == 3    \* a method is called while fewer requests were sent

StatusCodes == {200, 201, 400, 401, 404, 500}

\* response.json() of the token endpoint and of the other endpoints
TokenBodies == { [access |-> AccessToken(n)] : n \in 1..2 }

DataBodies == { EmptyDict, [results |-> <<"r1">>] }

MethodNames ==
    { "create_transactions", "get_access_token", "get_institutions",
      "create_end_user_agreement", "create_requisition", "get_requisition",
      "get_account_transactions", "get_account_details", "get_account_balances" }

\* the request a method sends once a token is held; arg is the requisition
\* or account the method is called for
MethodRequest(name, arg, client) ==
    CASE name = "create_transactions" -> YnabRequest("key", arg)
      [] name = "get_access_token" -> TokenRequest(client)
      [] name = "get_institutions" -> GcRequest(client, "GET", <<"institutions">>)
      [] name = "create_end_user_agreement" ->
            GcRequest(client, "POST", <<"agreements", "enduser">>)
      [] name = "create_requisition" -> GcRequest(client, "POST", <<"requisitions">>)
      [] name = "get_requisition" -> GcRequest(client, "GET", <<"requisitions", arg>>)
      [] name = "get_account_transactions" ->
            GcRequest(client, "GET", <<"accounts", arg, "transactions">>)
      [] name = "get_account_details" ->
            GcRequest(client, "GET", <<"accounts", arg, "details">>)
      [] name = "get_account_balances" ->
            GcRequest(client, "GET", <<"accounts", arg, "balances">>)

\* the argument each method is called with
MethodArg(name) ==
    CASE name = "create_transactions" -> "budget"
      [] name = "get_requisition" -> "req_1"
      [] name \in {"get_account_transactions", "get_account_details",
                   "get_account_balances"} -> "bank_account_1"
      [] OTHER -> ""

\* if not self.access_token: await self.get_access_token()
AcquiresFirst(name, client) ==
    /\ name \notin {"create_transactions", "get_access_token"}
    /\ NeedsToken(client)

\* a client method is called and sends its first request
CallClient ==
    /\ DOMAIN api_call = {}
    /\ Len(request_log) < MaxRequests
    /\ \E name \in MethodNames :
          /\ api_call' = [ method |-> name, arg |-> MethodArg(name),
                           awaiting |-> IF AcquiresFirst(name, gc_client)
                                        THEN "get_access_token" ELSE name ]
          /\ request_log' = Append(request_log,
                IF AcquiresFirst(name, gc_client) THEN TokenRequest(gc_client)
                ELSE MethodRequest(name, MethodArg(name), gc_client))
    /\ UNCHANGED <<config_file, now, bank_data, requisition_accounts, budget, pc, config,
                   requisition, last_sync, idx, total_added, ynab_transactions, result,
                   error, fetch_log, submit_log, response_log, save_log,
                   watermark_before, passes, gc_client, answered, error_log, api_out,
                   cliVars, prepVars, overlapVars>>

\* the request awaited is answered: log_and_raise_for_status(response), then
\* response.json() is returned, or kept as the token before the method
\* sends its own request
Respond ==
    /\ DOMAIN api_call # {}
    /\ \E status \in StatusCodes,
          body \in IF api_call.awaiting = "get_access_token" THEN TokenBodies
                   ELSE DataBodies :
          LET response == [ status_code |-> status,
                            request |-> request_log[Len(request_log)],
                            text |-> "content", json |-> body ]
              check == log_and_raise_for_status(response)
          IN  /\ answered' = answered + 1
              /\ error_log' = error_log \o check.log
              /\ IF check.raised
                 THEN /\ api_out' = [ called |-> TRUE, method |-> api_call.awaiting,
                                      response |-> response, raised |-> TRUE ]
                      /\ api_call' = EmptyDict
                      /\ UNCHANGED <<gc_client, request_log>>
                 ELSE IF api_call.awaiting = "get_access_token"
                 THEN /\ gc_client' = get_access_token(gc_client, response.json.access)
                      /\ api_out' = [ called |-> TRUE, method |-> "get_access_token",
                                      response |-> response, raised |-> FALSE,
                                      value |-> gc_client'.access_token ]
                      /\ IF api_call.method = "get_access_token"
                         THEN /\ api_call' = EmptyDict
                              /\ UNCHANGED request_log
                         ELSE /\ api_call' = [api_call EXCEPT !.awaiting = api_call.method]
                              /\ request_log' = Append(request_log,
                                    MethodRequest(api_call.method, api_call.arg,
                                                  gc_client'))
                 ELSE /\ api_out' = [ called |-> TRUE, method |-> api_call.method,
                                      response |-> response, raised |-> FALSE,
                                      value |-> response.json ]
                      /\ api_call' = EmptyDict
                      /\ UNCHANGED <<gc_client, request_log>>
    /\ UNCHANGED <<config_file, now, bank_data, requisition_accounts, budget, pc, config,
                   requisition, last_sync, idx, total_added, ynab_transactions, result,
                   error, fetch_log, submit_log, response_log, save_log,
                   watermark_before, passes, cliVars, prepVars, overlapVars>>

InitApi ==
    /\ config_file = EmptyDict
    /\ now = [day |-> 1, time |-> 0]
    /\ bank_data = EmptyDict
    /\ requisition_accounts = {}
    /\ budget = <<>>
    /\ pc = "idle"
    /\ config = EmptyDict
    /\ requisition = {}
    /\ last_sync = [day |-> 0, time |-> NoTime]
    /\ idx = 0
    /\ total_added = 0
    /\ ynab_transactions = <<>>
    /\ result = EmptyDict
    /\ error = "none"
    /\ fetch_log = <<>>
    /\ submit_log = <<>>
    /\ response_log = <<>>
    /\ save_log = <<>>
    /\ watermark_before = [day |-> 0, time |-> NoTime]
    /\ passes = 0
    /\ gc_client = GoCardlessClient
    /\ request_log = <<>>
    /\ answered = 0
    /\ error_log = <<>>
    /\ cli_out = EmptyDict
    /\ file_before = EmptyDict
    /\ command = "none"
    /\ saved = <<>>
    /\ other = NoOther
    /\ api_call = EmptyDict
    /\ api_out = [called |-> FALSE]
    /\ p_in = EmptyDict
    /\ p_acct = ""
    /\ p_out = [called |-> FALSE]

NextApi ==
    \/ CallClient
    \/ Respond

SpecApi == InitApi /\ [][NextApi]_vars

----------------------------------------------------------------------------
(* cli.py: the commands, run one at a time against the persisted           *)
(* configuration.  Prompts and confirmations are inputs of the command;    *)
(* the sync command runs sync_transactions.                                *)

\* what sync_transactions owns and no other command touches
passVars ==
    <<now, bank_data, requisition_accounts, budget, last_sync, total_added,
      ynab_transactions, result, error, fetch_log, submit_log, response_log, save_log,
      watermark_before, passes, api_out, prepVars, overlapVars>>

\* config.get(key, {})
Sub(cfg, key) == IF key \in DOMAIN cfg THEN cfg[key] ELSE EmptyDict

\* not config.get(section, {}).get(key)
Missing(cfg, section, key) ==
    IF key \in DOMAIN Sub(cfg, section) THEN Sub(cfg, section)[key] \in {"", None}
    ELSE TRUE

\* config.get(section, {}).get(key, ""): the default of a prompt
PromptDefault(cfg, section, key) ==
    IF key \in DOMAIN Sub(cfg, section) THEN Sub(cfg, section)[key] ELSE ""

\* d[key] = value
Set(d, key, value) == [k \in DOMAIN d \cup {key} |-> IF k = key THEN value ELSE d[k]]

\* del d[key] for the keys present
Del(d, keys) == [k \in DOMAIN d \ keys |-> d[k]]

\* account_mappings.get(bank_account_id)
MapGet(m, bank_account_id) ==
    IF \E i \in DOMAIN m : m[i][1] = bank_account_id
    THEN m[CHOOSE i \in DOMAIN m : m[i][1] = bank_account_id][2]
    ELSE None

\* MapSet starting from an empty dict
MapSetAlone(m, bank_account_id, ynab_account_id) ==
    <<<<bank_account_id, ynab_account_id>>>>

\* account_mappings[bank_account_id] = ynab_account_id
MapSet(m, bank_account_id, ynab_account_id) ==
    IF \E i \in DOMAIN m : m[i][1] = bank_account_id
    THEN [i \in DOMAIN m |->
             IF m[i][1] = bank_account_id THEN <<bank_account_id, ynab_account_id>>
             ELSE m[i]]
    ELSE Append(m, <<bank_account_id, ynab_account_id>>)

\* requisition["accounts"] as the list the service returns
AccountList(accounts) ==
    SelectSeq(<<"bank_account_1", "bank_account_2">>, LAMBDA a : a \in accounts)

\* the mapping prompts of map_accounts for the first n accounts; the answer
\* "" accepts the default, the existing mapping
RECURSIVE PromptMappings(_, _, _, _)
PromptMappings(m, accounts, answers, n) ==
    IF n = 0 THEN m
    ELSE LET prev == PromptMappings(m, accounts, answers, n - 1)
             ynab_account_id == IF answers[n] = "" THEN MapGet(prev, accounts[n])
                                ELSE answers[n]
         IN  MapSet(prev, accounts[n], ynab_account_id)

\* a command begins
CliBegin ==
    /\ command = "none"
    /\ file_before' = config_file
    /\ answered' = 0
    /\ error_log' = <<>>

\* the command goes on to a network operation
Run(name) ==
    /\ command' = name
    /\ cli_out' = EmptyDict

\* the command ends: what it printed last and its exit code (click.Abort
\* and an uncaught exception exit with 1)
Exit(name, message, exit_code) ==
    /\ cli_out' = [command |-> name, message |-> message, exit_code |-> exit_code]
    /\ command' = "none"
    /\ pc' = "idle"
    /\ api_call' = EmptyDict

\* asyncio.run(client.method(arg)): the token request first when the client
\* holds no token
CliCall(client, log, method, arg) ==
    /\ pc' = "cli_await"
    /\ api_call' = [ method |-> method, arg |-> arg,
                     awaiting |-> IF NeedsToken(client) THEN "get_access_token"
                                  ELSE method ]
    /\ request_log' = Append(log,
          IF NeedsToken(client) THEN TokenRequest(client)
          ELSE MethodRequest(method, arg, client))

\* configure: five prompts, then save_config
Configure ==
    /\ CliBegin
    /\ LET cfg == load_config(config_file, now)
       IN  \E ynab_api_key \in {PromptDefault(cfg, "ynab", "api_key"), "key"},
              gocardless_secret_id \in {PromptDefault(cfg, "gocardless", "secret_id"), "sid"},
              gocardless_secret_key \in {PromptDefault(cfg, "gocardless", "secret_key"),
                                         "skey"},
              last_sync_str \in { IF "last_sync" \in DOMAIN cfg THEN cfg.last_sync
                                  ELSE [day |-> now.day - 7, time |-> NoTime],
                                  [day |-> 1, time |-> NoTime],
                                  [text |-> "yesterday"] } :
              IF "ynab" \notin DOMAIN cfg \/ "gocardless" \notin DOMAIN cfg
              THEN /\ Exit("configure", "KeyError", 1)
                   /\ saved' = <<>>
                   /\ UNCHANGED <<config, config_file>>
              ELSE /\ config' =
                        [k \in DOMAIN cfg \cup {"last_sync"} |->
                            CASE k = "ynab" ->
                                    Set(Set(cfg.ynab, "api_key", ynab_api_key),
                                        "budget_id", PromptDefault(cfg, "ynab", "budget_id"))
                              [] k = "gocardless" ->
                                    Set(Set(cfg.gocardless, "secret_id", gocardless_secret_id),
                                        "secret_key", gocardless_secret_key)
                              [] k = "last_sync" -> last_sync_str
                              [] OTHER -> cfg[k]]
                   /\ config_file' = config'
                   /\ saved' = <<config'>>
                   /\ Exit("configure", "Configuration saved successfully!", 0)
    /\ request_log' = <<>>
    /\ UNCHANGED <<requisition, idx, gc_client, passVars>>

\* list-institutions up to its request
ListInstitutions ==
    /\ CliBegin
    /\ saved' = <<>>
    /\ LET cfg == load_config(config_file, now)
       IN  /\ config' = cfg
           /\ IF Missing(cfg, "gocardless", "secret_id")
              THEN /\ Exit("list_institutions", "Please configure GoCardless credentials", 0)
                   /\ request_log' = <<>>
                   /\ UNCHANGED gc_client
              ELSE IF "secret_key" \notin DOMAIN cfg.gocardless
              THEN /\ Exit("list_institutions", "KeyError", 1)
                   /\ request_log' = <<>>
                   /\ UNCHANGED gc_client
              ELSE /\ Run("list_institutions")
                   /\ gc_client' = GoCardlessClient
                   /\ CliCall(GoCardlessClient, <<>>, "get_institutions", "")
    /\ UNCHANGED <<config_file, requisition, idx, passVars>>

\* get_institutions answered: the list is printed
ListInstitutionsOk ==
    /\ command = "list_institutions"
    /\ pc = "cli_await"
    /\ api_call.awaiting = "get_institutions"
    /\ answered' = answered + 1
    /\ \E institutions \in {<<>>, <<"inst_1">>} :
          Exit("list_institutions",
               IF institutions = <<>> THEN "No institutions found"
               ELSE "Available institutions", 0)
    /\ UNCHANGED <<config_file, config, requisition, idx, gc_client, request_log,
                   error_log, file_before, saved, passVars>>

\* the token endpoint answered 2xx to a client of a command
CliTokenOk ==
    /\ command \notin {"none", "sync"}
    /\ pc = "cli_await"
    /\ api_call.awaiting = "get_access_token"
    /\ answered' = answered + 1
    /\ gc_client' = get_access_token(gc_client, AccessToken(passes))
    /\ api_call' = [api_call EXCEPT !.awaiting = api_call.method]
    /\ request_log' = Append(request_log,
          MethodRequest(api_call.method, api_call.arg, gc_client'))
    /\ UNCHANGED <<config_file, pc, config, requisition, idx, error_log, cli_out,
                   file_before, saved, command, passVars>>

\* CliRaises saving the configuration once the old requisition is dropped
CliRaisesSaveCleared ==
    /\ command \notin {"none", "sync"}
    /\ pc = "cli_await"
    /\ answered' = answered + 1
    /\ error_log' = error_log \o
          log_and_raise_for_status(ErrorResponse(request_log[Len(request_log)])).log
    /\ IF command = "add_connection" /\ api_call.method = "get_requisition"
       THEN /\ config' = [config EXCEPT !.gocardless = Del(@, {"requisition_id"})]
            /\ config_file' = config'
            /\ saved' = Append(saved, config')
            /\ gc_client' = GoCardlessClient
            /\ CliCall(GoCardlessClient, request_log, "get_institutions", "")
            /\ UNCHANGED <<cli_out, command>>
       ELSE /\ Exit(command, "Error", 1)
            /\ UNCHANGED <<config, config_file, saved, gc_client, request_log>>
    /\ UNCHANGED <<requisition, idx, file_before, passVars>>

\* a request of a command answered non-2xx: the except clause around it
CliRaises ==
    /\ command \notin {"none", "sync"}
    /\ pc = "cli_await"
    /\ answered' = answered + 1
    /\ error_log' = error_log \o
          log_and_raise_for_status(ErrorResponse(request_log[Len(request_log)])).log
    /\ IF command = "add_connection" /\ api_call.method = "get_requisition"
       THEN /\ config' = [config EXCEPT !.gocardless = Del(@, {"requisition_id"})]
            /\ gc_client' = GoCardlessClient
            /\ CliCall(GoCardlessClient, request_log, "get_institutions", "")
            /\ UNCHANGED <<cli_out, command>>
       ELSE /\ Exit(command, "Error", 1)
            /\ UNCHANGED <<config, gc_client, request_log>>
    /\ UNCHANGED <<config_file, requisition, idx, file_before, saved, passVars>>

\* add-connection up to its first request
AddConnection ==
    /\ CliBegin
    /\ saved' = <<>>
    /\ LET cfg == load_config(config_file, now)
       IN  /\ config' = cfg
           /\ IF \/ Missing(cfg, "gocardless", "secret_id")
                 \/ Missing(cfg, "gocardless", "secret_key")
              THEN /\ Exit("add_connection", "GoCardless credentials not found", 0)
                   /\ request_log' = <<>>
                   /\ UNCHANGED gc_client
              ELSE /\ Run("add_connection")
                   /\ gc_client' = GoCardlessClient
                   /\ IF ~Missing(cfg, "gocardless", "requisition_id")
                      THEN CliCall(GoCardlessClient, <<>>, "get_requisition",
                                   cfg.gocardless.requisition_id)
                      ELSE CliCall(GoCardlessClient, <<>>, "get_institutions", "")
    /\ UNCHANGED <<config_file, requisition, idx, passVars>>

\* AddGetRequisitionOk clearing the connection before it asks
AddGetRequisitionOkClearFirst ==
    /\ command = "add_connection"
    /\ pc = "cli_await"
    /\ api_call.awaiting = "get_requisition"
    /\ answered' = answered + 1
    /\ IF requisition_accounts # {}
       THEN \E confirm \in BOOLEAN :
               IF confirm
               THEN /\ config' =
                         [k \in DOMAIN config \ {"account_mappings", "accounts_validated"} |->
                             IF k = "gocardless"
                             THEN Del(config.gocardless, {"requisition_id", "institution_id"})
                             ELSE config[k]]
                    /\ config_file' = config'
                    /\ saved' = Append(saved, config')
                    /\ gc_client' = GoCardlessClient
                    /\ CliCall(GoCardlessClient, request_log, "get_institutions", "")
                    /\ UNCHANGED <<cli_out, command>>
               ELSE /\ config' =
                         [k \in DOMAIN config \ {"account_mappings", "accounts_validated"} |->
                             IF k = "gocardless"
                             THEN Del(config.gocardless, {"requisition_id", "institution_id"})
                             ELSE config[k]]
                    /\ config_file' = config'
                    /\ saved' = Append(saved, config')
                    /\ Exit("add_connection", "Using existing bank connection.", 0)
                    /\ UNCHANGED <<gc_client, request_log>>
       ELSE /\ gc_client' = GoCardlessClient
            /\ CliCall(GoCardlessClient, request_log, "get_institutions", "")
            /\ UNCHANGED <<config, config_file, saved, cli_out, command>>
    /\ UNCHANGED <<requisition, idx, error_log, file_before, passVars>>

\* the existing requisition was read: keep it, or clear the connection and
\* the mappings, save_config, and go on with a new client
AddGetRequisitionOk ==
    /\ command = "add_connection"
    /\ pc = "cli_await"
    /\ api_call.awaiting = "get_requisition"
    /\ answered' = answered + 1
    /\ IF requisition_accounts # {}
       THEN \E confirm \in BOOLEAN :
               IF confirm
               THEN /\ config' =
                         [k \in DOMAIN config \ {"account_mappings", "accounts_validated"} |->
                             IF k = "gocardless"
                             THEN Del(config.gocardless, {"requisition_id", "institution_id"})
                             ELSE config[k]]
                    /\ config_file' = config'
                    /\ saved' = Append(saved, config')
                    /\ gc_client' = GoCardlessClient
                    /\ CliCall(GoCardlessClient, request_log, "get_institutions", "")
                    /\ UNCHANGED <<cli_out, command>>
               ELSE /\ Exit("add_connection", "Using existing bank connection.", 0)
                    /\ UNCHANGED <<config, config_file, saved, gc_client, request_log>>
       ELSE /\ gc_client' = GoCardlessClient
            /\ CliCall(GoCardlessClient, request_log, "get_institutions", "")
            /\ UNCHANGED <<config, config_file, saved, cli_out, command>>
    /\ UNCHANGED <<requisition, idx, error_log, file_before, passVars>>

\* the institutions were listed: select one and create the requisition
AddGetInstitutionsOk ==
    /\ command = "add_connection"
    /\ pc = "cli_await"
    /\ api_call.awaiting = "get_institutions"
    /\ answered' = answered + 1
    /\ \E institutions \in {<<>>, <<"inst_1">>}, selection \in {1, 2} :
          IF institutions = <<>>
          THEN /\ Exit("add_connection", "No institutions found", 0)
               /\ UNCHANGED request_log
          ELSE IF selection < 1 \/ selection > Len(institutions)
          THEN /\ Exit("add_connection", "Invalid selection", 0)
               /\ UNCHANGED request_log
          ELSE /\ CliCall(gc_client, request_log, "create_requisition",
                          institutions[selection])
               /\ UNCHANGED <<cli_out, command>>
    /\ UNCHANGED <<config_file, config, requisition, idx, gc_client, error_log,
                   file_before, saved, passVars>>

\* requisition["id"]: the service gives every requisition an id of its own
NewRequisitionId(file) ==
    IF PromptDefault(file, "gocardless", "requisition_id") = "req_2" THEN "req_3"
    ELSE "req_2"

\* the requisition was created: store both ids, save_config
AddCreateRequisitionOk ==
    /\ command = "add_connection"
    /\ pc = "cli_await"
    /\ api_call.awaiting = "create_requisition"
    /\ answered' = answered + 1
    /\ config' = [config EXCEPT !.gocardless =
                     Set(Set(@, "institution_id", api_call.arg), "requisition_id",
                         NewRequisitionId(file_before))]
    /\ config_file' = config'
    /\ saved' = Append(saved, config')
    /\ Exit("add_connection", "Please complete authentication", 0)
    /\ UNCHANGED <<requisition, idx, gc_client, request_log, error_log, file_before,
                   passVars>>

\* map-accounts up to its first request
MapAccounts ==
    /\ CliBegin
    /\ saved' = <<>>
    /\ LET cfg == load_config(config_file, now)
       IN  /\ config' = cfg
           /\ IF Missing(cfg, "gocardless", "requisition_id")
              THEN /\ Exit("map_accounts", "No bank connection found", 0)
                   /\ request_log' = <<>>
                   /\ UNCHANGED gc_client
              ELSE IF ~({"secret_id", "secret_key"} \subseteq DOMAIN cfg.gocardless)
              THEN /\ Exit("map_accounts", "KeyError", 1)
                   /\ request_log' = <<>>
                   /\ UNCHANGED gc_client
              ELSE /\ Run("map_accounts")
                   /\ gc_client' = GoCardlessClient
                   /\ CliCall(GoCardlessClient, <<>>, "get_requisition",
                              cfg.gocardless.requisition_id)
    /\ requisition' = {}
    /\ idx' = 0
    /\ UNCHANGED <<config_file, passVars>>

\* the requisition was read: the details of its first account
MapGetRequisitionOk ==
    /\ command = "map_accounts"
    /\ pc = "cli_await"
    /\ api_call.awaiting = "get_requisition"
    /\ answered' = answered + 1
    /\ requisition' = requisition_accounts
    /\ IF requisition_accounts = {}
       THEN /\ Exit("map_accounts", "No bank accounts found", 0)
            /\ UNCHANGED <<idx, request_log>>
       ELSE /\ idx' = 1
            /\ CliCall(gc_client, request_log, "get_account_details",
                       AccountList(requisition_accounts)[1])
            /\ UNCHANGED <<cli_out, command>>
    /\ UNCHANGED <<config_file, config, gc_client, error_log, file_before, saved, passVars>>

\* the details of an account were read: its balances
MapDetailsOk ==
    /\ command = "map_accounts"
    /\ pc = "cli_await"
    /\ api_call.awaiting = "get_account_details"
    /\ answered' = answered + 1
    /\ CliCall(gc_client, request_log, "get_account_balances", api_call.arg)
    /\ UNCHANGED <<config_file, config, requisition, idx, gc_client, error_log, cli_out,
                   file_before, saved, command, passVars>>

\* the balances of an account were read: the next account, or the mapping
\* prompts and save_config
MapBalancesOk ==
    /\ command = "map_accounts"
    /\ pc = "cli_await"
    /\ api_call.awaiting = "get_account_balances"
    /\ answered' = answered + 1
    /\ LET accounts == AccountList(requisition)
       IN  IF idx < Len(accounts)
           THEN /\ idx' = idx + 1
                /\ CliCall(gc_client, request_log, "get_account_details", accounts[idx + 1])
                /\ UNCHANGED <<config, config_file, saved, cli_out, command>>
           ELSE \E answers \in [DOMAIN accounts -> {"", "ynab_account_1"}] :
                   /\ \A i \in DOMAIN accounts :
                         answers[i] = "" =>
                            MapGet(AccountMappings(config), accounts[i]) # None
                   /\ config' = Set(Set(config, "account_mappings",
                                        PromptMappings(AccountMappings(config), accounts,
                                                       answers, Len(accounts))),
                                    "accounts_validated", TRUE)
                   /\ config_file' = config'
                   /\ saved' = Append(saved, config')
                   /\ cli_out' = [ command |-> "map_accounts",
                                    message |-> "Account mappings saved successfully!",
                                    exit_code |-> 0, answers |-> answers ]
                   /\ command' = "none"
                   /\ pc' = "idle"
                   /\ api_call' = EmptyDict
                   /\ UNCHANGED <<idx, request_log>>
    /\ UNCHANGED <<requisition, gc_client, error_log, file_before, passVars>>

\* sync: the three checks of the command
SyncCommand ==
    /\ CliBegin
    /\ saved' = <<>>
    /\ passes < MaxPasses
    /\ LET cfg == load_config(config_file, now)
       IN  IF Missing(cfg, "ynab", "api_key")
           THEN Exit("sync", "YNAB API key not found", 0)
           ELSE IF Missing(cfg, "gocardless", "requisition_id")
           THEN Exit("sync", "No bank connection found", 0)
           ELSE IF AccountMappings(cfg) = <<>>
           THEN Exit("sync", "No account mappings found", 0)
           ELSE /\ Run("sync")
                /\ pc' = "idle"
                /\ api_call' = EmptyDict
    /\ request_log' = <<>>
    /\ UNCHANGED <<config_file, config, requisition, idx, gc_client, passVars>>

\* asyncio.run(sync_transactions())
SyncRun ==
    /\ command = "sync"
    /\ pc = "idle"
    /\ StartSync

\* the pass returned or raised: the message, and click.Abort on an exception
SyncExit ==
    /\ command = "sync"
    /\ pc \in {"returned", "raised"}
    /\ IF pc = "returned" THEN Exit("sync", "Successfully added", 0)
       ELSE Exit("sync", "Error during sync", 1)
    /\ UNCHANGED <<config_file, config, requisition, idx, gc_client, request_log,
                   answered, error_log, file_before, saved, passVars>>

\* the configuration files the commands may find
CliFiles ==
    {NoFile} \cup
    { [ last_sync |-> [day |-> 0, time |-> NoTime], ynab |-> y, gocardless |-> g,
        account_mappings |-> m ] :
        y \in { [budget_id |-> "budget"], [api_key |-> "key", budget_id |-> "budget"] },
        g \in { [requisition_id |-> "req_1"],
                [secret_id |-> "sid", secret_key |-> "skey"],
                [secret_id |-> "sid", secret_key |-> "skey",
                 institution_id |-> "inst_1", requisition_id |-> "req_1"] },
        m \in { <<>>, << <<"bank_account_1", "ynab_account_1">>,
                        <<"bank_account_2", "unmapped">> >> } }

InitCli ==
    /\ config_file \in CliFiles
    /\ now = [day |-> 1, time |-> 0]
    /\ bank_data = [a \in BankAccounts |->
                       IF a = "bank_account_1"
                       THEN [transactions |->
                                [booked |-> <<Txn1, Txn2>>, pending |-> <<TxnPending>>]]
                       ELSE [transactions |-> [booked |-> <<Txn1>>, pending |-> <<>>]]]
    /\ requisition_accounts \in {{}, {"bank_account_1"}, BankAccounts}
    /\ budget = <<>>
    /\ pc = "idle"
    /\ config = EmptyDict
    /\ requisition = {}
    /\ last_sync = [day |-> 0, time |-> NoTime]
    /\ idx = 0
    /\ total_added = 0
    /\ ynab_transactions = <<>>
    /\ result = EmptyDict
    /\ error = "none"
    /\ fetch_log = <<>>
    /\ submit_log = <<>>
    /\ response_log = <<>>
    /\ save_log = <<>>
    /\ watermark_before = [day |-> 0, time |-> NoTime]
    /\ passes = 0
    /\ gc_client = EmptyDict
    /\ request_log = <<>>
    /\ answered = 0
    /\ error_log = <<>>
    /\ cli_out = EmptyDict
    /\ file_before = EmptyDict
    /\ command = "none"
    /\ saved = <<>>
    /\ other = NoOther
    /\ api_call = EmptyDict
    /\ api_out = [called |-> FALSE]
    /\ p_in = EmptyDict
    /\ p_acct = ""
    /\ p_out = [called |-> FALSE]

NextCli ==
    \/ Configure
    \/ ListInstitutions
    \/ ListInstitutionsOk
    \/ CliTokenOk
    \/ CliRaises
    \/ AddConnection
    \/ AddGetRequisitionOk
    \/ AddGetInstitutionsOk
    \/ AddCreateRequisitionOk
    \/ MapAccounts
    \/ MapGetRequisitionOk
    \/ MapDetailsOk
    \/ MapBalancesOk
    \/ SyncCommand
    \/ SyncRun
    \/ TokenOk
    \/ TokenRaises
    \/ GetRequisitionOk
    \/ GetRequisitionRaises
    \/ FetchOk
    \/ FetchRaises
    \/ SubmitOk
    \/ SubmitRaises
    \/ SyncExit

SpecCli == InitCli /\ [][NextCli]_vars

----------------------------------------------------------------------------
(* Two CLI processes on one configuration file: a sync pass and a command
   that loads the file, waits for requests and prompts, and saves *)

\* the commands that call save_config with the document they loaded
SavingCommands == {"configure", "map_accounts", "add_connection"}

\* config = load_config() of the second process, with the checks that make
\* the command return before it prompts or requests anything
OverlapLoad ==
    /\ other.command = "none"
    /\ \E cmd \in SavingCommands :
          LET cfg == load_config(config_file, now)
          IN  /\ cmd = "map_accounts" => ~Missing(cfg, "gocardless", "requisition_id")
              /\ cmd = "add_connection" =>
                    /\ ~Missing(cfg, "gocardless", "secret_id")
                    /\ ~Missing(cfg, "gocardless", "secret_key")
              /\ other' = [command |-> cmd, config |-> cfg]
    /\ UNCHANGED <<syncVars, cliVars, apiVars, prepVars>>

\* configure after its prompts: the answers are stored in the loaded
\* document, last_sync included, and the document is saved
OverlapConfigureSave ==
    /\ other.command = "configure"
    /\ LET cfg == other.config
       IN  \E ynab_api_key \in {PromptDefault(cfg, "ynab", "api_key"), "key"},
              typed \in BOOLEAN :
              LET last_sync_str == IF typed THEN [day |-> 1, time |-> NoTime]
                                   ELSE cfg.last_sync
              IN  /\ config_file' =
                        [k \in DOMAIN cfg |->
                            CASE k = "ynab" ->
                                    Set(Set(cfg.ynab, "api_key", ynab_api_key),
                                        "budget_id", PromptDefault(cfg, "ynab", "budget_id"))
                              [] k = "gocardless" ->
                                    Set(Set(cfg.gocardless, "secret_id",
                                            PromptDefault(cfg, "gocardless", "secret_id")),
                                        "secret_key",
                                        PromptDefault(cfg, "gocardless", "secret_key"))
                              [] k = "last_sync" -> last_sync_str
                              [] OTHER -> cfg[k]]
                  /\ other' = [command |-> "none", default_accepted |-> ~typed]
    /\ UNCHANGED <<now, bank_data, requisition_accounts, budget, pc, config, requisition,
                   last_sync, idx, total_added, ynab_transactions, result, error,
                   fetch_log, submit_log, response_log, save_log, watermark_before,
                   passes, clientVars, cliVars, apiVars, prepVars>>

\* map_accounts after its requests and prompts: the mappings and
\* accounts_validated are stored in the loaded document, which is saved
OverlapMapAccountsSave ==
    /\ other.command = "map_accounts"
    /\ requisition_accounts # {}
    /\ LET cfg == other.config
           accounts == AccountList(requisition_accounts)
       IN  \E answers \in [DOMAIN accounts -> {"", "ynab_account_1"}] :
              /\ \A i \in DOMAIN accounts :
                    answers[i] = "" => MapGet(AccountMappings(cfg), accounts[i]) # None
              /\ config_file' =
                    Set(Set(cfg, "account_mappings",
                            PromptMappings(AccountMappings(cfg), accounts, answers,
                                           Len(accounts))),
                        "accounts_validated", TRUE)
    /\ other' = NoOther
    /\ UNCHANGED <<now, bank_data, requisition_accounts, budget, pc, config, requisition,
                   last_sync, idx, total_added, ynab_transactions, result, error,
                   fetch_log, submit_log, response_log, save_log, watermark_before,
                   passes, clientVars, cliVars, apiVars, prepVars>>

\* add_connection, the user confirms the replacement of a requisition that
\* has accounts: the connection is cleared in the loaded document, which is
\* saved
OverlapAddConnectionClear ==
    /\ other.command = "add_connection"
    /\ ~Missing(other.config, "gocardless", "requisition_id")
    /\ requisition_accounts # {}
    /\ LET cfg == other.config
           cleared == [k \in DOMAIN cfg \ {"account_mappings", "accounts_validated"} |->
                          IF k = "gocardless"
                          THEN Del(cfg.gocardless, {"requisition_id", "institution_id"})
                          ELSE cfg[k]]
       IN  /\ config_file' = cleared
           /\ other' = [other EXCEPT !.config = cleared]
    /\ UNCHANGED <<now, bank_data, requisition_accounts, budget, pc, config, requisition,
                   last_sync, idx, total_added, ynab_transactions, result, error,
                   fetch_log, submit_log, response_log, save_log, watermark_before,
                   passes, clientVars, cliVars, apiVars, prepVars>>

\* add_connection after create_requisition: both ids are stored in the
\* loaded document, which is saved
OverlapAddConnectionSave ==
    /\ other.command = "add_connection"
    /\ \/ Missing(other.config, "gocardless", "requisition_id")
       \/ requisition_accounts = {}
    /\ config_file' =
          [other.config EXCEPT !.gocardless =
              Set(Set(@, "institution_id", "inst_1"), "requisition_id",
                  NewRequisitionId(other.config))]
    /\ other' = NoOther
    /\ UNCHANGED <<now, bank_data, requisition_accounts, budget, pc, config, requisition,
                   last_sync, idx, total_added, ynab_transactions, result, error,
                   fetch_log, submit_log, response_log, save_log, watermark_before,
                   passes, clientVars, cliVars, apiVars, prepVars>>

\* the configurations and bank answers the two processes start from
InitOverlap ==
    /\ Init
    /\ bank_data = [a \in BankAccounts |->
                       IF a = "bank_account_1"
                       THEN [transactions |->
                                [booked |-> <<Txn1, Txn2>>, pending |-> <<TxnPending>>]]
                       ELSE EmptyDict]
    /\ config_file.last_sync = [day |-> 0, time |-> NoTime]

NextOverlap ==
    \/ StartSync
    \/ PassStep
    \/ OverlapLoad
    \/ OverlapConfigureSave
    \/ OverlapMapAccountsSave
    \/ OverlapAddConnectionClear
    \/ OverlapAddConnectionSave

SpecOverlap == InitOverlap /\ [][NextOverlap]_vars

----------------------------------------------------------------------------
(* Properties of the sync pass (Spec) *)

\* the pass ran the account loop to its end and returned
LoopCompleted == pc = "returned" /\ idx = Len(AccountMappings(config)) + 1

\* C1: if create_transactions raises for any account during a pass, the
\* persisted last_sync after the pass equals the persisted last_sync before
\* the pass, however many earlier accounts were submitted successfully.
C1_WatermarkKeptOnSubmitError ==
    (pc = "raised" /\ error = "create_transactions")
        => config_file.last_sync = watermark_before

\* C1 witness: the submission raised after an earlier account was submitted
C1_Witness ==
    /\ pc = "raised"
    /\ error = "create_transactions"
    /\ Len(response_log) >= 1
    /\ Len(submit_log) = 2

C3_UnmappedNeverFetched ==
    LET m == AccountMappings(config)
    IN  /\ \A i \in DOMAIN fetch_log : \A j \in DOMAIN m :
              m[j][1] = fetch_log[i].account_id => m[j][2] # "unmapped"
        /\ \A i \in DOMAIN submit_log :
              \A k \in DOMAIN submit_log[i].request.transactions :
                  submit_log[i].request.transactions[k].account_id # "unmapped"

\* C4: every fetch of a pass carries the query parameter date_from, equal to
\* the date part of the last_sync read at pass start.
C4_FetchBoundedByWatermark ==
    \A i \in DOMAIN fetch_log :
        /\ "date_from" \in DOMAIN fetch_log[i].params
        /\ fetch_log[i].params.date_from = [day |-> last_sync.day, time |-> NoTime]

\* C8: the added count of a completed pass is the sum, over the responses of
\* the pass's submissions, of the number of transaction_ids returned (0 for a
\* response without transaction_ids), never the number of transactions sent.
C8_AddedIsSumOfReturnedIds ==
    LET RECURSIVE Sum(_)
        Sum(k) == IF k = 0 THEN 0
                  ELSE Sum(k - 1) +
                       (IF "transaction_ids" \in DOMAIN response_log[k]
                        THEN Len(response_log[k].transaction_ids) ELSE 0)
    IN  LoopCompleted =>
            /\ Len(response_log) = Len(submit_log)
            /\ result = [added |-> Sum(Len(response_log))]

\* C8 witness: a completed pass that was returned fewer identifiers than the
\* transactions it sent
C8_Witness ==
    /\ LoopCompleted
    /\ \E i \in DOMAIN response_log :
          /\ "transaction_ids" \in DOMAIN response_log[i]
          /\ Len(response_log[i].transaction_ids) = 1
          /\ Len(submit_log[i].request.transactions) = 2
    /\ \E i \in DOMAIN response_log : "transaction_ids" \notin DOMAIN response_log[i]
    /\ result = [added |-> 1]

\* C9: in a pass without errors the fetch is issued exactly once for each
\* mapping entry that is not skipped, and the submission exactly once for
\* each account whose booked list is non-empty and never for an account
\* whose fetch or normalization yielded nothing.
C9_OneFetchOneSubmitPerAccount ==
    LET m == AccountMappings(config)
        Fetches(b) == Cardinality({i \in DOMAIN fetch_log : fetch_log[i].account_id = b})
        Submits(b) == Cardinality({i \in DOMAIN submit_log :
                                      submit_log[i].bank_account_id = b})
        HasBooked(b) == /\ "transactions" \in DOMAIN bank_data[b]
                        /\ "booked" \in DOMAIN bank_data[b].transactions
                        /\ bank_data[b].transactions.booked # <<>>
    IN  /\ \A i \in DOMAIN submit_log : submit_log[i].request.transactions # <<>>
        /\ \A j \in DOMAIN m : Fetches(m[j][1]) <= 1 /\ Submits(m[j][1]) <= 1
        /\ LoopCompleted =>
              \A j \in DOMAIN m :
                  /\ Fetches(m[j][1]) = IF m[j][1] \in requisition THEN 1 ELSE 0
                  /\ Submits(m[j][1]) =
                        IF m[j][1] \in requisition /\ HasBooked(m[j][1]) THEN 1 ELSE 0

\* C9 witness: a completed pass over two accounts, one with and one without
\* booked transactions
C9_Witness ==
    /\ LoopCompleted
    /\ Len(fetch_log) = 2
    /\ Len(submit_log) = 1

\* C10: against a service that suppresses duplicates by import identifier,
\* no sequence of passes over the same bank data, failed passes and retries
\* included, leaves one bank transaction recorded twice in the budget.
C10_NoBankTransactionRecordedTwice ==
    \A i, j \in DOMAIN budget : i # j => budget[i].src # budget[j].src

\* C10 witness: a second pass, after a pass that recorded transactions but
\* did not advance the watermark, resubmits them and none is created
C10_Witness ==
    /\ passes = 2
    /\ watermark_before = config_file.last_sync
    /\ budget # <<>>
    /\ \E i \in DOMAIN response_log :
          /\ "transaction_ids" \in DOMAIN response_log[i]
          /\ response_log[i].transaction_ids = <<>>

----------------------------------------------------------------------------
(* Properties of prepare_ynab_transactions (SpecPrepare) *)

\* C5: for every booked transaction with decimal amount a, the emitted amount
\* is round(a * 1000), a signed integer with the sign of a.
C5_MilliunitsSigned ==
    (p_out.called /\ ~p_out.raised) =>
        \A i \in DOMAIN p_out.value :
            LET a == p_in.transactions.booked[i].transactionAmount.amount
            IN  p_out.value[i].amount =
                    (IF a.neg THEN 0 - 1 ELSE 1) * (a.whole * 1000 + a.frac)

\* C6: payee_name is the debtor name when present, else the remittance text
\* when present, else "Unknown".
C6_PayeePrecedence ==
    (p_out.called /\ ~p_out.raised) =>
        \A i \in DOMAIN p_out.value :
            LET txn == p_in.transactions.booked[i]
                hasDebtor == "debtorName" \in DOMAIN txn
                hasRemit == "remittanceInformationUnstructured" \in DOMAIN txn
                payee == p_out.value[i].payee_name
            IN  /\ hasDebtor => payee = txn.debtorName
                /\ (~hasDebtor /\ hasRemit) => payee = txn.remittanceInformationUnstructured
                /\ (~hasDebtor /\ ~hasRemit) => payee = "Unknown"

\* C6 witness: a transaction with both a debtor name and a remittance text
C6_Witness ==
    /\ p_out.called
    /\ ~p_out.raised
    /\ Len(p_out.value) = 2
    /\ "debtorName" \in DOMAIN p_in.transactions.booked[1]
    /\ "remittanceInformationUnstructured" \in DOMAIN p_in.transactions.booked[1]
    /\ "debtorName" \notin DOMAIN p_in.transactions.booked[2]
    /\ p_out.value[1].payee_name = "John Doe"

\* C7: the result is the empty sequence, and nothing is raised, whenever the
\* booked list is empty or absent, the transactions key included.
C7_EmptyOrAbsentBooked ==
    LET absent == \/ "transactions" \notin DOMAIN p_in
                  \/ "booked" \notin DOMAIN p_in.transactions
                  \/ p_in.transactions.booked = <<>>
    IN  (p_out.called /\ absent) => (~p_out.raised /\ p_out.value = <<>>)

\* C7 witness: a response with pending items and no booked list
C7_Witness ==
    /\ p_out.called
    /\ "transactions" \in DOMAIN p_in
    /\ "booked" \notin DOMAIN p_in.transactions
    /\ "pending" \in DOMAIN p_in.transactions
    /\ p_out.value = <<>>

----------------------------------------------------------------------------
(* Errors, the access token and the order of requests in a sync pass *)

\* C11: when a client call of a sync pass (token, requisition read,
\* transaction fetch or submission) is answered with an error, the pass ends
\* raised with the error of exactly that call, issues no request and writes
\* no configuration in that step, and nothing more is fetched, submitted or
\* persisted by that pass afterwards.
C11_ErrorAbortsPass ==
    [][ /\ (passes' = passes /\ error_log' # error_log) =>
              /\ pc' = "raised"
              /\ error' = CASE pc = "await_token" -> "get_access_token"
                            [] pc = "await_create_requisition" -> "create_requisition"
                            [] pc = "await_get_requisition" -> "get_requisition"
                            [] pc = "await_fetch" -> "get_account_transactions"
                            [] pc = "await_submit" -> "create_transactions"
                            [] OTHER -> "none"
              /\ UNCHANGED <<fetch_log, submit_log, request_log, config_file>>
        /\ (pc = "raised" /\ passes' = passes) =>
              UNCHANGED <<pc, error, fetch_log, submit_log, request_log, config_file>>
      ]_vars

\* a fetch raised while a later mapped account of the requisition was still
\* to be processed
C11_Witness ==
    /\ pc = "raised"
    /\ error = "get_account_transactions"
    /\ Len(error_log) = 1
    /\ NextIdx(AccountMappings(config), requisition, idx + 1)
          <= Len(AccountMappings(config))
    /\ Len(fetch_log) = 1

\* C12: constructing the GoCardlessClient of a pass triggers the token
\* acquisition: whenever the client of a pass exists, the token request has
\* been issued.
C12_ConstructionAcquiresToken ==
    DOMAIN gc_client # {} =>
        /\ request_log # <<>>
        /\ request_log[1] = TokenRequest(GoCardlessClient)

\* C13: once the token endpoint has answered non-2xx the pass has failed:
\* the token request is the only request of the pass (no retry, no request
\* to a data endpoint), the client holds no token and no Authorization
\* header, and the persisted watermark is the one from before the pass.
C13_TokenFailureIsFatal ==
    (\E i \in DOMAIN error_log : error_log[i].url = <<"token", "new">>) =>
        /\ pc = "raised"
        /\ error = "get_access_token"
        /\ request_log = <<TokenRequest(GoCardlessClient)>>
        /\ gc_client.access_token = NoToken
        /\ "Authorization" \notin DOMAIN gc_client.headers
        /\ fetch_log = <<>>
        /\ submit_log = <<>>
        /\ PersistedWatermark(config_file) = watermark_before

\* the token request of a pass with mapped accounts was refused
C13_Witness ==
    /\ pc = "raised"
    /\ error = "get_access_token"
    /\ Len(error_log) = 1
    /\ error_log[1].method = "POST"
    /\ answered = 1
    /\ AccountMappings(config) # <<>>

\* C18: at most one upstream request is outstanding at any moment, and the
\* accounts are fetched in mapping order, each submission being for the
\* account fetched last.
C18_SequentialOneOutstanding ==
    /\ Len(request_log) - answered \in {0, 1}
    /\ \A a, b \in DOMAIN fetch_log :
          a < b =>
             \E i, j \in DOMAIN AccountMappings(config) :
                /\ i < j
                /\ AccountMappings(config)[i][1] = fetch_log[a].account_id
                /\ AccountMappings(config)[j][1] = fetch_log[b].account_id
    /\ \A k \in DOMAIN submit_log :
          \E a \in DOMAIN fetch_log :
             /\ fetch_log[a].account_id = submit_log[k].bank_account_id
             /\ (k = Len(submit_log) /\ pc = "await_submit") => a = Len(fetch_log)
             /\ \A b \in DOMAIN fetch_log : b < a => 
                   \A k2 \in DOMAIN submit_log :
                      submit_log[k2].bank_account_id = fetch_log[b].account_id => k2 < k

\* the second account is being fetched after the fetch and the submission
\* of the first were answered
C18_Witness ==
    /\ pc = "await_fetch"
    /\ Len(fetch_log) = 2
    /\ Len(submit_log) = 1
    /\ Len(request_log) = 5
    /\ answered = 4

\* C19: every batch submitted holds exactly the booked transactions of the
\* response fetched for its bank account, in order, each addressed to the
\* budgeting account mapped to that bank account, and holds no transaction
\* of the pending partition.
C19_OnlyBookedSubmitted ==
    \A k \in DOMAIN submit_log :
       LET e == submit_log[k]
           raw == bank_data[e.bank_account_id]
           batch == e.request.transactions
       IN  /\ "transactions" \in DOMAIN raw
           /\ "booked" \in DOMAIN raw.transactions
           /\ Len(batch) = Len(raw.transactions.booked)
           /\ \A i \in DOMAIN batch :
                 /\ batch[i].import_id
                       = <<"gc:", raw.transactions.booked[i].transactionId>>
                 /\ \E j \in DOMAIN AccountMappings(config) :
                       AccountMappings(config)[j]
                          = <<e.bank_account_id, batch[i].account_id>>
                 /\ \A q \in DOMAIN raw.transactions.pending :
                       batch[i].import_id
                          # <<"gc:", raw.transactions.pending[q].transactionId>>
           /\ (k = Len(submit_log) /\ pc = "await_submit") =>
                 e.bank_account_id = fetch_log[Len(fetch_log)].account_id

\* a batch was submitted for an account whose response also held a pending
\* transaction
C19_Witness ==
    /\ pc = "await_submit"
    /\ LET raw == bank_data[submit_log[Len(submit_log)].bank_account_id]
       IN  /\ raw.transactions.pending # <<>>
           /\ Len(submit_log[Len(submit_log)].request.transactions) = 2

----------------------------------------------------------------------------
(* Properties of the client methods (SpecApi) *)

----------------------------------------------------------------------------
(* Properties of the commands (SpecCli) *)

\* C15: the persisted last_sync changes only in the step that ends a fully
\* successful sync pass, where it is written once; no other operation
\* (configure, add-connection, map-accounts) changes it.
C15_WatermarkWrittenOnlyByPassEnd ==
    [][ PersistedWatermark(config_file') # PersistedWatermark(config_file) =>
           /\ command = "sync"
           /\ pc' = "returned"
           /\ idx' = Len(AccountMappings(config)) + 1
           /\ Len(save_log') = 1
      ]_vars

\* C16: when the API key, a bank-data secret, the requisition or the
\* account mappings are absent from the configuration the sync command
\* found, the command issues no request, exits with code zero and leaves
\* the persisted configuration as it was.
C16_SyncRefusesIncompleteConfiguration ==
    LET cfg == load_config(file_before, now)
        absent == \/ Missing(cfg, "ynab", "api_key")
                  \/ Missing(cfg, "gocardless", "secret_id")
                  \/ Missing(cfg, "gocardless", "secret_key")
                  \/ Missing(cfg, "gocardless", "requisition_id")
                  \/ AccountMappings(cfg) = <<>>
    IN  absent =>
           /\ command = "sync" => request_log = <<>>
           /\ (command = "none" /\ DOMAIN cli_out # {} /\ cli_out.command = "sync") =>
                 /\ cli_out.exit_code = 0
                 /\ request_log = <<>>
                 /\ config_file = file_before

\* C17: when sync, map-accounts, add-connection or list-institutions ends
\* aborted after a request of it was answered with an error, the persisted
\* watermark and account-mapping state are what they were when the command
\* began.
C17_AbortKeepsWatermarkAndMappings ==
    ( /\ command = "none"
      /\ DOMAIN cli_out # {}
      /\ cli_out.command \in {"sync", "map_accounts", "add_connection",
                              "list_institutions"}
      /\ cli_out.exit_code = 1
      /\ error_log # <<>> ) =>
       /\ PersistedWatermark(config_file) = PersistedWatermark(file_before)
       /\ AccountMappings(config_file) = AccountMappings(file_before)

----------------------------------------------------------------------------
(* Termination and the early returns of the sync pass *)

\* C21: a pass sends at most one token request, one requisition request,
\* and one fetch and one submission per mapping entry, so at most
\* 2 + 2 * (number of mapping entries) requests and no request twice; and
\* once its requests are answered it has returned or raised.
C21_LinearPassTerminates ==
    /\ [](LET m == AccountMappings(config)
              Count(endpoint) ==
                  Cardinality({i \in DOMAIN request_log :
                                  request_log[i].endpoint = endpoint})
          IN  /\ Count(<<"token", "new">>) <= 1
              /\ Count(<<"requisitions">>)
                    + Cardinality({i \in DOMAIN request_log :
                                      /\ Len(request_log[i].endpoint) = 2
                                      /\ request_log[i].endpoint[1] = "requisitions"}) <= 1
              /\ \A j \in DOMAIN m :
                    /\ Count(<<"accounts", m[j][1], "transactions">>) <= 1
                    /\ Cardinality({k \in DOMAIN submit_log :
                                       submit_log[k].bank_account_id = m[j][1]}) <= 1
              /\ Len(request_log) <= 2 + 2 * Len(m)
              /\ Len(request_log) = Count(<<"token", "new">>)
                    + Count(<<"requisitions">>)
                    + Cardinality({i \in DOMAIN request_log :
                                      /\ Len(request_log[i].endpoint) = 2
                                      /\ request_log[i].endpoint[1] = "requisitions"})
                    + Len(fetch_log) + Len(submit_log))
    /\ (pc \notin {"idle", "returned", "raised"}) ~> (pc \in {"returned", "raised"})

\* a pass over two mapping entries returned after the most requests a pass
\* can send
C21_Witness ==
    /\ pc = "returned"
    /\ Len(AccountMappings(config)) = 2
    /\ Len(request_log) = 6
    /\ answered = 6

----------------------------------------------------------------------------
(* Frame conditions of the configuration writes *)

C23_DeclineKeepsConnection ==
    ( /\ command = "none"
      /\ DOMAIN cli_out # {}
      /\ cli_out.command = "add_connection"
      /\ cli_out.message = "Using existing bank connection." ) =>
       /\ saved = <<>>
       /\ config_file = file_before
       /\ \A i \in DOMAIN request_log :
             ~(request_log[i].method = "POST" /\ request_log[i].endpoint = <<"requisitions">>)
       /\ cli_out.exit_code = 0

\* the user declined while account mappings were configured
C23_Witness ==
    /\ command = "none"
    /\ DOMAIN cli_out # {}
    /\ cli_out.message = "Using existing bank connection."
    /\ AccountMappings(config_file) # <<>>
    /\ config_file.gocardless.requisition_id = "req_1"
    /\ Len(request_log) = 2

\* C24: when add-connection completed after the lookup of the existing
\* requisition had failed, it sent exactly one create-requisition request
\* and called save_config exactly once, with institution_id set to the
\* selected institution and requisition_id to the new id; the old id is in
\* no saved document and every other key is as it was.
C24_FailedLookupReplacesRequisition ==
    ( /\ command = "none"
      /\ DOMAIN cli_out # {}
      /\ cli_out.command = "add_connection"
      /\ cli_out.message = "Please complete authentication"
      /\ error_log # <<>> ) =>
       /\ Cardinality({i \in DOMAIN request_log :
                          /\ request_log[i].method = "POST"
                          /\ request_log[i].endpoint = <<"requisitions">>}) = 1
       /\ Len(saved) = 1
       /\ saved[1] = config_file
       /\ config_file.gocardless.institution_id = "inst_1"
       /\ config_file.gocardless.requisition_id \in {"req_2", "req_3"}
       /\ config_file.gocardless.requisition_id # file_before.gocardless.requisition_id
       /\ \A k \in DOMAIN file_before \ {"gocardless"} :
             k \in DOMAIN config_file /\ config_file[k] = file_before[k]
       /\ \A k \in DOMAIN file_before.gocardless \ {"institution_id", "requisition_id"} :
             config_file.gocardless[k] = file_before.gocardless[k]

\* the lookup of req_1 failed and the command went on to create req_2
C24_Witness ==
    /\ command = "none"
    /\ DOMAIN cli_out # {}
    /\ cli_out.message = "Please complete authentication"
    /\ Len(error_log) = 1
    /\ file_before.gocardless.requisition_id = "req_1"
    /\ config_file.gocardless.requisition_id = "req_2"

\* C25: when map-accounts has saved, every linked account for which an
\* identifier was entered is mapped to it, a linked account whose default
\* was accepted and every account not shown keep their mapping,
\* accounts_validated is true, and every other key of the persisted
\* configuration is as the command found it.
C25_MapAccountsFrame ==
    ( /\ command = "none"
      /\ DOMAIN cli_out # {}
      /\ cli_out.command = "map_accounts"
      /\ cli_out.message = "Account mappings saved successfully!" ) =>
       LET accounts == AccountList(requisition)
           old == AccountMappings(file_before)
           new == config_file.account_mappings
           Lookup(m, a) == {m[i][2] : i \in {j \in DOMAIN m : m[j][1] = a}}
       IN  /\ accounts # <<>>
           /\ \A i \in DOMAIN accounts :
                 Lookup(new, accounts[i]) =
                    IF cli_out.answers[i] # "" THEN {cli_out.answers[i]}
                    ELSE Lookup(old, accounts[i])
           /\ \A a \in BankAccounts \ requisition : Lookup(new, a) = Lookup(old, a)
           /\ \A a \in BankAccounts : Cardinality({j \in DOMAIN new : new[j][1] = a}) <= 1
           /\ config_file.accounts_validated = TRUE
           /\ DOMAIN config_file
                 = DOMAIN file_before \cup {"account_mappings", "accounts_validated"}
           /\ \A k \in DOMAIN file_before \ {"account_mappings", "accounts_validated"} :
                 config_file[k] = file_before[k]
           /\ saved = <<config_file>>

\* an identifier was entered for the one linked account while the other
\* account, not shown, had a mapping
C25_Witness ==
    /\ command = "none"
    /\ DOMAIN cli_out # {}
    /\ cli_out.message = "Account mappings saved successfully!"
    /\ requisition = {"bank_account_1"}
    /\ cli_out.answers = <<"ynab_account_1">>
    /\ AccountMappings(file_before)
          = << <<"bank_account_1", "ynab_account_1">>, <<"bank_account_2", "unmapped">> >>
    /\ config_file.accounts_validated

----------------------------------------------------------------------------
(* The early returns and the skipped entries of the sync pass *)

\* C26: a pass that returned after creating the requisition, on a
\* requisition without accounts, or with no account mappings returned
\* {added: 0}, fetched and submitted nothing, saved no watermark, and left
\* the persisted watermark as it was at pass start.
C26_EarlyReturnKeepsWatermark ==
    ( /\ pc = "returned"
      /\ \/ \E i \in DOMAIN request_log : request_log[i].endpoint = <<"requisitions">>
         \/ requisition = {}
         \/ AccountMappings(config) = <<>> ) =>
       /\ result = [added |-> 0]
       /\ fetch_log = <<>>
       /\ submit_log = <<>>
       /\ save_log = <<>>
       /\ PersistedWatermark(config_file) = watermark_before

\* a pass with mapped accounts returned early on a requisition without
\* accounts, on a later day than the watermark
C26_Witness ==
    /\ pc = "returned"
    /\ requisition = {}
    /\ AccountMappings(config) # <<>>
    /\ Len(request_log) = 2
    /\ request_log[2].method = "GET"
    /\ watermark_before.day < now.day

\* the mapping entries whose bank account is linked to the requisition, in
\* mapping order
C27_Kept ==
    SelectSeq(AccountMappings(config), LAMBDA e : e[1] \in requisition)

\* C27: a mapping entry whose bank account is not among the requisition's
\* accounts gets no fetch and no submission; the other entries are fetched
\* in mapping order; and a pass that skipped entries still saves the
\* watermark once when the loop ends.
C27_SkippedEntryDoesNotStopPass ==
    /\ \A i \in DOMAIN fetch_log : fetch_log[i].account_id \in requisition
    /\ \A i \in DOMAIN submit_log : submit_log[i].bank_account_id \in requisition
    /\ Len(fetch_log) <= Len(C27_Kept)
    /\ \A i \in DOMAIN fetch_log : fetch_log[i].account_id = C27_Kept[i][1]
    /\ LoopCompleted =>
          /\ Len(fetch_log) = Len(C27_Kept)
          /\ Len(save_log) = 1
          /\ config_file.last_sync = save_log[1]

\* a completed pass whose first mapping entry was skipped and whose second
\* was fetched and submitted, with the watermark moved
C27_Witness ==
    /\ LoopCompleted
    /\ Len(AccountMappings(config)) = 2
    /\ AccountMappings(config)[1][1] \notin requisition
    /\ Len(fetch_log) = 1
    /\ Len(submit_log) = 1
    /\ config_file.last_sync # watermark_before

----------------------------------------------------------------------------
(* Replaced connections and overlapping commands *)

\* C28: when add-connection has saved a requisition_id in place of another
\* one, the persisted configuration holds no account mapping and no
\* accounts_validated flag of the previous connection, whichever way the
\* command came to replace it.
C28_ReplacedConnectionDropsMappings ==
    ( /\ command = "none"
      /\ DOMAIN cli_out # {}
      /\ cli_out.command = "add_connection"
      /\ cli_out.message = "Please complete authentication"
      /\ ~Missing(file_before, "gocardless", "requisition_id")
      /\ config_file.gocardless.requisition_id # file_before.gocardless.requisition_id ) =>
       /\ AccountMappings(config_file) = <<>>
       /\ "accounts_validated" \notin DOMAIN config_file

\* C29: when a command that loaded the configuration before a sync pass
\* saved its watermark saves after the pass has returned, and the user typed
\* no last-sync date of their own, the persisted watermark stays the one the
\* pass saved.
C29_NoLostWatermark ==
    [][ ( /\ other.command \in SavingCommands
          /\ other' # other
          /\ "default_accepted" \in DOMAIN other' => other'.default_accepted
          /\ pc = "returned"
          /\ save_log # <<>>
          /\ PersistedWatermark(config_file) = save_log[Len(save_log)]
          /\ PersistedWatermark(other.config) # PersistedWatermark(config_file) )
        => PersistedWatermark(config_file') = PersistedWatermark(config_file) ]_vars

----------------------------------------------------------------------------
(* The shape of the normalized batch *)

\* C30: for a booked list of n transactions that all carry a transactionId,
\* prepare_ynab_transactions returns n entries in the order of the list;
\* entry i has the target account as account_id, transaction i's bookingDate
\* as date and "gc:" followed by transaction i's transactionId as import_id,
\* so two transactions with different ids get different import ids.
C30_NormalizePreservesOrderAndIds ==
    ( /\ p_out.called
      /\ "transactions" \in DOMAIN p_in
      /\ "booked" \in DOMAIN p_in.transactions
      /\ \A i \in DOMAIN p_in.transactions.booked :
            "transactionId" \in DOMAIN p_in.transactions.booked[i] ) =>
       LET booked == p_in.transactions.booked
           out == p_out.value
       IN  /\ ~p_out.raised
           /\ Len(out) = Len(booked)
           /\ \A i \in DOMAIN booked :
                 /\ out[i].account_id = p_acct
                 /\ out[i].date = booked[i].bookingDate
                 /\ out[i].import_id = <<"gc:", booked[i].transactionId>>
           /\ \A i, j \in DOMAIN booked :
                 booked[i].transactionId # booked[j].transactionId
                    => out[i].import_id # out[j].import_id

\* a batch of two transactions with different ids and booking dates was
\* normalized
C30_Witness ==
    /\ p_out.called
    /\ ~p_out.raised
    /\ Len(p_out.value) = 2
    /\ p_in.transactions.booked[1].transactionId = "t1"
    /\ p_in.transactions.booked[2].transactionId = "t2"
    /\ p_out.value[1].date # p_out.value[2].date
    /\ p_out.value[1].import_id # p_out.value[2].import_id

====
